---------------------------- MODULE Spec2Model ----------------------------
(***************************************************************************)
(* Tenant resolution and per-tenant database routing of py_pos:            *)
(* src/config/multitenant.py (subdomain extractor, tenant directory,       *)
(* engine cache, request-scoped tenant session) together with the tenant   *)
(* management operations of src/modules/tenant/service.py that change what *)
(* the directory returns.                                                  *)
(*                                                                         *)
(* Text is modelled as a sequence of one-character strings, so that        *)
(* split / endswith are computed as Python computes them.  A sequence      *)
(* element longer than one character is an opaque piece of text (a fixed   *)
(* message or URL prefix) that no string operation looks into.             *)
(***************************************************************************)
EXTENDS Integers, Sequences, FiniteSets, TLC

(***************************************************************************)
(* Bounds of the model.                                                    *)
(***************************************************************************)
\* Number of HTTP requests that go through get_tenant_session.
MaxRequests == 2

\* Number of pieces a host text given to the extractor is put together from.
MaxPieces == 4

\* Number of clients that call POST /tenants at the same time.
MaxCreators == 2

(***************************************************************************)
(* Text values.                                                            *)
(***************************************************************************)
\* Python's None: a value different from every text.
None == <<"None">>

LOCALHOST == <<"l", "o", "c", "a", "l", "h", "o", "s", "t">>
ACME == <<"a", "c", "m", "e">>
BETA == <<"b", "e", "t", "a">>
PORT8000 == <<":", "8", "0", "0", "0">>

\* Host headers the requests carry ("" is an absent header: headers.get("host", "")).
Hosts ==
    { ACME \o <<".">> \o LOCALHOST \o PORT8000,
      BETA \o <<".">> \o LOCALHOST,
      LOCALHOST \o PORT8000,
      <<>> }

\* Subdomains the tenant-management API is called with (valid TenantCreate data).
TenantSubdomains == {ACME, BETA}

Statuses == {"active", "paused", "suspended"}

(***************************************************************************)
(* Python string operations.                                               *)
(***************************************************************************)
\* s.endswith(suffix)
EndsWith(s, suffix) ==
    /\ Len(suffix) <= Len(s)
    /\ SubSeq(s, Len(s) - Len(suffix) + 1, Len(s)) = suffix

\* Index of the first occurrence of character c in s, 0 when there is none.
RECURSIVE FirstIndex(_, _, _)
FirstIndex(s, c, i) ==
    IF i > Len(s) THEN 0
    ELSE IF s[i] = c THEN i
    ELSE FirstIndex(s, c, i + 1)

\* s.split(c) for a one-character separator: always at least one part.
RECURSIVE Split(_, _)
Split(s, c) ==
    LET i == FirstIndex(s, c, 1)
    IN  IF i = 0 THEN <<s>>
        ELSE <<SubSeq(s, 1, i - 1)>> \o Split(SubSeq(s, i + 1, Len(s)), c)

\* s.lower() on the ASCII letters.
UPPERCASE == <<"A", "B", "C", "D", "E", "F", "G", "H", "I", "J", "K", "L", "M",
               "N", "O", "P", "Q", "R", "S", "T", "U", "V", "W", "X", "Y", "Z">>
LOWERCASE == <<"a", "b", "c", "d", "e", "f", "g", "h", "i", "j", "k", "l", "m",
               "n", "o", "p", "q", "r", "s", "t", "u", "v", "w", "x", "y", "z">>

LowerChar(c) ==
    IF \E i \in 1 .. Len(UPPERCASE) : UPPERCASE[i] = c
    THEN LOWERCASE[CHOOSE i \in 1 .. Len(UPPERCASE) : UPPERCASE[i] = c]
    ELSE c

Lower(s) == [i \in 1 .. Len(s) |-> LowerChar(s[i])]

\* Python truthiness of an Optional[str]: None and "" are falsy.
Falsy(x) == x = None \/ x = <<>>

(***************************************************************************)
(* extract_subdomain_from_host                                             *)
(***************************************************************************)
\* An extractor that asks for three labels whatever the main domain.
extract_subdomain_three_labels(host, main_domain) ==
    LET host_no_port == Split(host, ":")[1]
        parts == Split(host_no_port, ".")
    IN  IF EndsWith(host_no_port, main_domain) /\ Len(parts) >= 3
        THEN parts[1]
        ELSE None

\* 43-56
extract_subdomain_from_host(host, main_domain) ==
    LET host_no_port == Split(host, ":")[1]
        parts == Split(host_no_port, ".")
        min_parts == IF main_domain = LOCALHOST THEN 2 ELSE 3
    IN  IF EndsWith(host_no_port, main_domain) /\ Len(parts) >= min_parts
        THEN parts[1]
        ELSE None


(***************************************************************************)
(* The central database's tenants table (modules/tenant/model.py).         *)
(***************************************************************************)
DB_URL_PREFIX == <<"postgresql+asyncpg://DB_USER:DB_PASS@DB_HOST:DB_PORT/">>

\* db_name = f"tenant_{subdomain}"
TenantDbName(subdomain) == <<"tenant_">> \o subdomain

\* db_url = f"postgresql+asyncpg://{user}:{pass}@{host}:{port}/{db_name}"
TenantDbUrl(subdomain) == DB_URL_PREFIX \o TenantDbName(subdomain)

\* Primary keys the management API is called with: the key of the tenant
\* the table starts with, and the key the first tenant created in this run
\* gets (a key that no tenant has until then).
TenantIds == {1, 2}

\* Every connection target a tenant row can hold.
Urls == {TenantDbUrl(s) : s \in TenantSubdomains}

VARIABLES
    tenants,              \* rows of the central tenants table
    tenant_engines,       \* the cache: a function on the cached connection targets
    tenant_engines_lock,  \* the request holding the lock, NoHolder when free
    created,              \* per connection target, how many engines were constructed
    req,                  \* per request: position in get_tenant_session and its locals
    call,                 \* a call of a function on its own: arguments and result
    admin                 \* the server's databases and the TenantService calls in progress

vars == <<tenants, tenant_engines, tenant_engines_lock, created, req, call, admin>>

Requests == 1 .. MaxRequests
NoHolder == 0

\* Rows of the tenants table with the given subdomain / primary key.
RowsBySubdomain(table, subdomain) == {t \in table : t.subdomain = subdomain}
RowsById(table, id) == {t \in table : t.id = id}

\* A directory that does not look at the status.
get_tenant_db_url_any_status(table, subdomain) ==
    LET rows == RowsBySubdomain(table, subdomain)
    IN  IF rows = {} THEN None
        ELSE (CHOOSE t \in rows : TRUE).db_url

\* A directory that turns away suspended tenants only.
get_tenant_db_url_suspended_only(table, subdomain) ==
    LET rows == RowsBySubdomain(table, subdomain)
    IN  IF rows = {} THEN None
        ELSE LET tenant_record == CHOOSE t \in rows : TRUE
             IN  IF tenant_record.status = "suspended" THEN None
                 ELSE tenant_record.db_url

(***************************************************************************)
(* get_tenant_db_url: SELECT db_url, status ... WHERE subdomain = :s,      *)
(* result.first(); None for no row and for a row that is not active.       *)
(***************************************************************************)
get_tenant_db_url(table, subdomain) ==
    LET rows == RowsBySubdomain(table, subdomain)
    IN  IF rows = {} THEN None
        ELSE LET tenant_record == CHOOSE t \in rows : TRUE
             IN  IF tenant_record.status # "active" THEN None
                 ELSE tenant_record.db_url

\* What the SELECT of get_tenant_db_url saw: "no_row", or the row's status.
RowSeen(table, subdomain) ==
    LET rows == RowsBySubdomain(table, subdomain)
    IN  IF rows = {} THEN "no_row" ELSE (CHOOSE t \in rows : TRUE).status

(***************************************************************************)
(* Outcomes a request ends with, as the caller (the framework) sees them.  *)
(***************************************************************************)
HTTP_400_BAD_REQUEST == 400
HTTP_404_NOT_FOUND == 404

NoOutcome == [kind |-> "none", status_code |-> 0, detail |-> <<>>]

\* The dependency ran to its end: the response of the route is sent.
Completed == [kind |-> "completed", status_code |-> 0, detail |-> <<>>]

MissingSubdomain ==
    [kind |-> "HTTPException", status_code |-> HTTP_400_BAD_REQUEST,
     detail |-> <<"No se detecto subdominio. Accede mediante: {tenant}.localhost:8000">>]

\* A resolver that answers an unknown tenant with status 400.
TenantNotFoundAsBadRequest(subdomain) ==
    [kind |-> "HTTPException", status_code |-> HTTP_400_BAD_REQUEST,
     detail |-> <<"Tenant '">> \o subdomain \o <<"' no encontrado o inactivo">>]

TenantNotFound(subdomain) ==
    [kind |-> "HTTPException", status_code |-> HTTP_404_NOT_FOUND,
     detail |-> <<"Tenant '">> \o subdomain \o <<"' no encontrado o inactivo">>]

\* An exception of create_async_engine / async_sessionmaker, propagated as raised.
EngineError == [kind |-> "EngineError", status_code |-> 0, detail |-> <<>>]

\* What a route raises when the thing asked for does not exist:
\* HTTPException(status_code=404, detail=...).
RouteNotFound ==
    [kind |-> "HTTPException", status_code |-> HTTP_404_NOT_FOUND,
     detail |-> <<"Not found">>]

\* The exception (or cancellation) that was thrown into the dependency, re-raised.
\* An HTTPException raised by a route is the one case in which what is
\* re-raised carries a status code.
Reraised(exc) ==
    IF exc = "HTTPException" THEN RouteNotFound
    ELSE [kind |-> exc, status_code |-> 0, detail |-> <<>>]

(***************************************************************************)
(* A request before get_tenant_session has run.                            *)
(***************************************************************************)
NoEntry == [engine |-> None, sessionmaker |-> None]

InitialRequest ==
    [pc |-> "start",            \* position in get_tenant_session
     host |-> None,             \* request.headers.get("host", "")
     subdomain |-> None,        \* local subdomain
     db_url |-> None,           \* local db_url
     row_seen |-> "not_read",   \* what the directory query saw
     central |-> "none",        \* central session: none / open / closed
     calls |-> 0,               \* calls of get_or_create_tenant_engine made
     tenant_entry |-> NoEntry,  \* local tenant_entry
     session |-> "none",        \* tenant session: none / open / closed
     bind |-> None,             \* the sessionmaker the session came from
     commits |-> 0,             \* session.commit() calls that succeeded
     rollbacks |-> 0,           \* session.rollback() calls that succeeded
     failed_closes |-> 0,       \* session.close() calls that did not succeed
     route |-> "none",          \* how the route ended: returned, RouteError,
                                \* HTTPException or CancelledError
     original |-> "none",       \* the first exception raised while the session
                                \* was in use or being committed
     exc |-> "none",            \* exception in flight inside the generator:
                                \* RouteError, HTTPException, CommitError,
                                \* IOFailure (all Exceptions) or CancelledError
                                \* (a BaseException)
     outcome |-> NoOutcome]

\* What an await on the database can end with instead of its result: the
\* driver raises (IOFailure: the connection is lost, the server gives up),
\* or the task of the request is cancelled while it waits.
Failures == {"IOFailure", "CancelledError"}

\* The names the management API is called with: the company name every
\* tenant is created with (TenantCreate.name, schema.py 11) and the one
\* update_tenant can rename it to.
COMPANY == "Empresa"
RENAMED == "Renombrada"

\* The tenants row create_tenant stores for a subdomain (service.py 39-63).
NewTenant(id, subdomain) ==
    [id |-> id,
     name |-> COMPANY,
     subdomain |-> subdomain,
     db_name |-> TenantDbName(subdomain),
     db_url |-> TenantDbUrl(subdomain),
     status |-> "active"]

\* No function is being called on its own.
NoCall == [fn |-> "none"]

\* The clients of the tenant-management API, each with one call at a time.
Creators == 1 .. MaxCreators

\* What a TenantService call returned or raised.
NoResult == [kind |-> "none", detail |-> <<>>]

\* service.py 36: ValueError(f"El subdominio '{...}' ya existe")
SubdomainExists == [kind |-> "ValueError", detail |-> <<"ya existe">>]

\* service.py 50: ValueError(f"No se pudo crear la base de datos: {e}")
DatabaseNotCreated ==
    [kind |-> "ValueError", detail |-> <<"No se pudo crear la base de datos">>]

\* service.py 66, 122: a constraint of the tenants table (unique subdomain
\* and db_name, status NOT NULL: model.py 20-39) refuses the statement at
\* the commit; the exception leaves the service call as it is.
IntegrityError == [kind |-> "IntegrityError", detail |-> <<>>]

\* service.py 53: settings.DB_PASS, of a settings object without DB_PASS.
AttributeError == [kind |-> "AttributeError", detail |-> <<"DB_PASS">>]

\* service.py 76: return new_tenant
TenantCreated == [kind |-> "Tenant", detail |-> <<"creado">>]

\* service.py 127: return tenant
TenantUpdated == [kind |-> "Tenant", detail |-> <<"actualizado">>]

\* service.py 115: return None
NoneReturned == [kind |-> "None", detail |-> <<>>]

\* service.py 140: return False; 148: return True
FalseReturned == [kind |-> "False", detail |-> <<>>]
TrueReturned == [kind |-> "True", detail |-> <<>>]

\* An await of TenantService raised, or the call was cancelled at it: the
\* exception leaves the call as it is.
ServiceRaised(e) == [kind |-> e, detail |-> <<>>]

\* status=None or name=None given explicitly in TenantUpdate (schema.py
\* 48-49: Optional), and a field not given: model_dump(exclude_unset=True)
\* leaves it out.
NoStatus == "None"
NoName == "None"
Unset == "unset"

\* A client that is not calling: pc is the await the call is suspended at,
\* loaded and loaded_name are the status and the name of the row as the
\* call's session read it, status and name the ones the call has set on
\* the object.
IdleCall ==
    [fn |-> "none", pc |-> "idle", subdomain |-> None, tenant_id |-> 0,
     status |-> "none", loaded |-> "none",
     name |-> "none", loaded_name |-> "none", outcome |-> NoResult]

\* The session's unit of work: the commit sends an UPDATE for an attribute
\* whose value is not the one that was read, and nothing for the others.
Dirty(p) == p.status # p.loaded
DirtyName(p) == p.name # p.loaded_name

\* The server holds the database of the tenant the table starts with, and
\* no TenantService call is in progress.  DB_PASS says whether the settings
\* object of the deployment has the DB_PASS that create_tenant reads
\* (config/settings.py declares DB_PASSWORD, and neither DB_PASS nor the
\* DATABASE_URL that config/db.py reads).
NoCalls ==
    [databases |-> {TenantDbName(BETA)}, proc |-> [c \in Creators |-> IdleCall],
     DB_PASS |-> TRUE]

\* The settings a deployment may run with.
Deployments == {[NoCalls EXCEPT !.DB_PASS = b] : b \in BOOLEAN}

\* The result of a call that has not returned yet.
Pending == <<"Pending">>

\* The process starts on a central database that already holds one tenant
\* (beta, active); the cache and the lock are as the module creates them
\* (19-21).
Init ==
    /\ tenants = {NewTenant(1, BETA)}
    /\ tenant_engines = <<>>
    /\ tenant_engines_lock = NoHolder
    /\ created = <<>>
    /\ req = [r \in Requests |-> InitialRequest]
    /\ admin \in Deployments
    /\ call = NoCall

\* Engines constructed so far for connection target u.
EnginesCreated(u) == IF u \in DOMAIN created THEN created[u] ELSE 0

\* The engine / sessionmaker pair built by the n-th construction for target u.
NewEntry(u, n) == [engine |-> <<u, n>>, sessionmaker |-> <<u, n>>]


(***************************************************************************)
(* get_tenant_session, multitenant.py 124-174.  One action per stretch of  *)
(* code between two points where another request can run.                  *)
(***************************************************************************)
\* Requests are numbered in the order in which they arrive.
MayStart(r) == IF r = 1 THEN TRUE ELSE req[r - 1].pc # "start"

\* A resolver that enters the central session before looking at the subdomain.
StartCentralFirst(r, h) ==
    /\ req[r].pc = "start"
    /\ MayStart(r)
    /\ LET subdomain == extract_subdomain_from_host(h, LOCALHOST)
       IN  req' = [req EXCEPT ![r] =
                IF Falsy(subdomain)
                THEN [@ EXCEPT !.host = h, !.subdomain = subdomain,
                               !.central = "closed",
                               !.pc = "failed", !.outcome = MissingSubdomain]
                ELSE [@ EXCEPT !.host = h, !.subdomain = subdomain,
                               !.central = "open", !.pc = "lookup"]]
    /\ UNCHANGED <<tenants, tenant_engines, tenant_engines_lock, created, call, admin>>

\* 139-152: read the Host header, extract the subdomain; without one raise
\* 400, otherwise enter "async with AsyncSessionLocal() as central_db".
Start(r, h) ==
    /\ req[r].pc = "start"
    /\ MayStart(r)
    /\ LET subdomain == extract_subdomain_from_host(h, LOCALHOST)
       IN  req' = [req EXCEPT ![r] =
                IF Falsy(subdomain)
                THEN [@ EXCEPT !.host = h, !.subdomain = subdomain,
                               !.pc = "failed", !.outcome = MissingSubdomain]
                ELSE [@ EXCEPT !.host = h, !.subdomain = subdomain,
                               !.central = "open", !.pc = "lookup"]]
    /\ UNCHANGED <<tenants, tenant_engines, tenant_engines_lock, created, call, admin>>

\* A resolver that asks the directory only for tenants whose engine is not
\* cached yet.
LookupCachedFirst(r) ==
    /\ req[r].pc = "lookup"
    /\ req' = [req EXCEPT ![r] =
            IF TenantDbUrl(req[r].subdomain) \in DOMAIN tenant_engines
            THEN [@ EXCEPT !.db_url = TenantDbUrl(req[r].subdomain),
                           !.row_seen = RowSeen(tenants, req[r].subdomain),
                           !.pc = "central_exit"]
            ELSE [@ EXCEPT !.db_url = get_tenant_db_url(tenants, req[r].subdomain),
                           !.row_seen = RowSeen(tenants, req[r].subdomain),
                           !.pc = "central_exit"]]
    /\ UNCHANGED <<tenants, tenant_engines, tenant_engines_lock, created, call, admin>>

\* 154: db_url = await get_tenant_db_url(central_db, subdomain)
Lookup(r) ==
    /\ req[r].pc = "lookup"
    /\ req' = [req EXCEPT ![r] =
            [@ EXCEPT !.db_url = get_tenant_db_url(tenants, req[r].subdomain),
                      !.row_seen = RowSeen(tenants, req[r].subdomain),
                      !.pc = "central_exit"]]
    /\ UNCHANGED <<tenants, tenant_engines, tenant_engines_lock, created, call, admin>>

\* 154 with 70: the await of central_db.execute raises or is cancelled; the
\* exception leaves get_tenant_db_url and the body of the async with of 152.
LookupFails(r, e) ==
    /\ req[r].pc = "lookup"
    /\ req' = [req EXCEPT ![r] = [@ EXCEPT !.exc = e, !.pc = "central_exit"]]
    /\ UNCHANGED <<tenants, tenant_engines, tenant_engines_lock, created, call, admin>>

\* A resolver that leaves the central block without testing db_url.
CentralExitUnchecked(r) ==
    /\ req[r].pc = "central_exit"
    /\ req' = [req EXCEPT ![r] =
            IF req[r].exc # "none"
            THEN [@ EXCEPT !.central = "closed", !.pc = "failed",
                           !.outcome = Reraised(req[r].exc)]
            ELSE [@ EXCEPT !.central = "closed", !.pc = "call_engine"]]
    /\ UNCHANGED <<tenants, tenant_engines, tenant_engines_lock, created, call, admin>>

\* A resolver that keeps the central session for the rest of the request.
CentralExitHolding(r) ==
    /\ req[r].pc = "central_exit"
    /\ req' = [req EXCEPT ![r] =
            IF req[r].exc # "none"
            THEN [@ EXCEPT !.central = "closed", !.pc = "failed",
                           !.outcome = Reraised(req[r].exc)]
            ELSE IF Falsy(req[r].db_url)
            THEN [@ EXCEPT !.central = "closed", !.pc = "failed",
                           !.outcome = TenantNotFound(req[r].subdomain)]
            ELSE [@ EXCEPT !.pc = "call_engine"]]
    /\ UNCHANGED <<tenants, tenant_engines, tenant_engines_lock, created, call, admin>>

\* 156-160 and the end of the async with of 152: the exception of the
\* query goes on, or without a db_url 404 is raised; either way the central
\* session is closed on leaving the block.
CentralExit(r) ==
    /\ req[r].pc = "central_exit"
    /\ req' = [req EXCEPT ![r] =
            IF req[r].exc # "none"
            THEN [@ EXCEPT !.central = "closed", !.pc = "failed",
                           !.outcome = Reraised(req[r].exc)]
            ELSE IF Falsy(req[r].db_url)
            THEN [@ EXCEPT !.central = "closed", !.pc = "failed",
                           !.outcome = TenantNotFound(req[r].subdomain)]
            ELSE [@ EXCEPT !.central = "closed", !.pc = "call_engine"]]
    /\ UNCHANGED <<tenants, tenant_engines, tenant_engines_lock, created, call, admin>>

\* The end of the async with of 152: the close() that the central session's
\* __aexit__ awaits raises or is cancelled.  That exception leaves
\* get_tenant_session, in the place of the one in flight (the 404 or the
\* query's), and the central session has not been closed.
CentralExitFails(r, e) ==
    /\ req[r].pc = "central_exit"
    /\ req' = [req EXCEPT ![r] =
            [@ EXCEPT !.exc = e, !.pc = "failed", !.outcome = Reraised(e)]]
    /\ UNCHANGED <<tenants, tenant_engines, tenant_engines_lock, created, call, admin>>

(***************************************************************************)
(* get_or_create_tenant_engine, multitenant.py 87-121, called at 163.      *)
(***************************************************************************)
\* A lock that excludes no one (the "with" forgotten).
LockNeverHeld == TRUE

\* threading.Lock: acquire succeeds only while no one holds the lock.
LockAvailable == tenant_engines_lock = NoHolder

\* A membership test that never finds the key.
NeverCached(db_url) == FALSE

\* 98: db_url in tenant_engines
IsCached(db_url) == db_url \in DOMAIN tenant_engines

\* 97: with tenant_engines_lock (enter)
EngineAcquire(r) ==
    /\ req[r].pc = "call_engine"
    /\ LockAvailable
    /\ tenant_engines_lock' = r
    /\ req' = [req EXCEPT ![r] = [@ EXCEPT !.calls = @ + 1, !.pc = "locked"]]
    /\ UNCHANGED <<tenants, tenant_engines, created, call, admin>>

\* A hit that returns without leaving the lock (acquire() without a with,
\* the release forgotten on the early return).
EngineHitHolding(r) ==
    /\ req[r].pc = "locked"
    /\ IsCached(req[r].db_url)
    /\ req' = [req EXCEPT ![r] =
            [@ EXCEPT !.tenant_entry = tenant_engines[req[r].db_url],
                      !.pc = "open_session"]]
    /\ UNCHANGED <<tenants, tenant_engines, tenant_engines_lock, created, call, admin>>

\* 98-99: a hit returns the cached entry and leaves the with block.
EngineHit(r) ==
    /\ req[r].pc = "locked"
    /\ IsCached(req[r].db_url)
    /\ tenant_engines_lock' = NoHolder
    /\ req' = [req EXCEPT ![r] =
            [@ EXCEPT !.tenant_entry = tenant_engines[req[r].db_url],
                      !.pc = "open_session"]]
    /\ UNCHANGED <<tenants, tenant_engines, created, call, admin>>

\* 98: a miss goes on to construct.
EngineMiss(r) ==
    /\ req[r].pc = "locked"
    /\ ~IsCached(req[r].db_url)
    /\ req' = [req EXCEPT ![r] = [@ EXCEPT !.pc = "creating"]]
    /\ UNCHANGED <<tenants, tenant_engines, tenant_engines_lock, created, call, admin>>

\* 102-121: construct engine and sessionmaker, store the pair under db_url,
\* return the stored entry and leave the with block.
EngineCreate(r) ==
    /\ req[r].pc = "creating"
    /\ LET u == req[r].db_url
           entry == NewEntry(u, EnginesCreated(u) + 1)
       IN  /\ created' = (u :> (EnginesCreated(u) + 1)) @@ created
           /\ tenant_engines' = (u :> entry) @@ tenant_engines
           /\ req' = [req EXCEPT ![r] =
                   [@ EXCEPT !.tenant_entry = entry, !.pc = "open_session"]]
    /\ tenant_engines_lock' = NoHolder
    /\ UNCHANGED <<tenants, call, admin>>

\* A failed construction that leaves with the lock still held.
EngineCreateFailsHolding(r) ==
    /\ req[r].pc = "creating"
    /\ req' = [req EXCEPT ![r] = [@ EXCEPT !.pc = "failed", !.outcome = EngineError]]
    /\ UNCHANGED <<tenants, tenant_engines, tenant_engines_lock, created, call, admin>>

\* 102-115 raising (create_async_engine rejects the URL or finds no driver):
\* the with block releases the lock and the exception leaves
\* get_tenant_session, nothing having been stored.
EngineCreateFails(r) ==
    /\ req[r].pc = "creating"
    /\ tenant_engines_lock' = NoHolder
    /\ req' = [req EXCEPT ![r] = [@ EXCEPT !.pc = "failed", !.outcome = EngineError]]
    /\ UNCHANGED <<tenants, tenant_engines, created, call, admin>>

(***************************************************************************)
(* The tenant session, multitenant.py 166-174.                             *)
(***************************************************************************)
\* A resolver that opens the session from whichever factory the cache holds
\* (the entry kept in a variable shared by the requests).
OpenSessionAnyEntry(r) ==
    /\ req[r].pc = "open_session"
    /\ \E u \in DOMAIN tenant_engines :
          req' = [req EXCEPT ![r] =
              [@ EXCEPT !.session = "open",
                        !.bind = tenant_engines[u].sessionmaker,
                        !.pc = "yield"]]
    /\ UNCHANGED <<tenants, tenant_engines, tenant_engines_lock, created, call, admin>>

\* 166-168: open a session from the entry's sessionmaker and yield it.
OpenSession(r) ==
    /\ req[r].pc = "open_session"
    /\ req' = [req EXCEPT ![r] =
            [@ EXCEPT !.session = "open",
                      !.bind = req[r].tenant_entry.sessionmaker,
                      !.pc = "yield"]]
    /\ UNCHANGED <<tenants, tenant_engines, tenant_engines_lock, created, call, admin>>

\* 168: the route finished without raising; the generator is resumed.
CallerCompletes(r) ==
    /\ req[r].pc = "yield"
    /\ req' = [req EXCEPT ![r] = [@ EXCEPT !.route = "returned", !.pc = "commit"]]
    /\ UNCHANGED <<tenants, tenant_engines, tenant_engines_lock, created, call, admin>>

\* A generator without the except branch: the route's Exception goes
\* straight to the cleanup.
CallerRaisesUncaught(r) ==
    /\ req[r].pc = "yield"
    /\ req' = [req EXCEPT ![r] =
            [@ EXCEPT !.route = "RouteError", !.original = "RouteError", !.exc = "RouteError",
                      !.pc = "close"]]
    /\ UNCHANGED <<tenants, tenant_engines, tenant_engines_lock, created, call, admin>>

\* 168, 170: the route raised an Exception, thrown into the generator at yield.
CallerRaises(r) ==
    /\ req[r].pc = "yield"
    /\ req' = [req EXCEPT ![r] =
            [@ EXCEPT !.route = "RouteError", !.original = "RouteError", !.exc = "RouteError",
                      !.pc = "rollback"]]
    /\ UNCHANGED <<tenants, tenant_engines, tenant_engines_lock, created, call, admin>>

\* 168, 170: the route raised HTTPException (as FastAPI routes do for an
\* item that does not exist), thrown into the generator at yield; it is an
\* Exception like any other.
CallerRaisesHTTPException(r) ==
    /\ req[r].pc = "yield"
    /\ req' = [req EXCEPT ![r] =
            [@ EXCEPT !.route = "HTTPException", !.original = "HTTPException",
                      !.exc = "HTTPException", !.pc = "rollback"]]
    /\ UNCHANGED <<tenants, tenant_engines, tenant_engines_lock, created, call, admin>>

\* 168, 173: the request is cancelled at yield.  CancelledError is a
\* BaseException, so "except Exception" does not catch it; finally runs.
CallerCancelled(r) ==
    /\ req[r].pc = "yield"
    /\ req' = [req EXCEPT ![r] =
            [@ EXCEPT !.route = "CancelledError", !.original = "CancelledError", !.exc = "CancelledError",
                      !.pc = "close"]]
    /\ UNCHANGED <<tenants, tenant_engines, tenant_engines_lock, created, call, admin>>

\* A generator that goes on to close without having committed.
CommitSkipped(r) ==
    /\ req[r].pc = "commit"
    /\ req' = [req EXCEPT ![r] = [@ EXCEPT !.pc = "close"]]
    /\ UNCHANGED <<tenants, tenant_engines, tenant_engines_lock, created, call, admin>>

\* 169: await session.commit() succeeds.
Commit(r) ==
    /\ req[r].pc = "commit"
    /\ req' = [req EXCEPT ![r] = [@ EXCEPT !.commits = @ + 1, !.pc = "close"]]
    /\ UNCHANGED <<tenants, tenant_engines, tenant_engines_lock, created, call, admin>>

\* 169, 170: await session.commit() raises; the except branch catches it.
CommitFails(r) ==
    /\ req[r].pc = "commit"
    /\ req' = [req EXCEPT ![r] =
            [@ EXCEPT !.original = "CommitError", !.exc = "CommitError",
                      !.pc = "rollback"]]
    /\ UNCHANGED <<tenants, tenant_engines, tenant_engines_lock, created, call, admin>>

\* 169, 173: the request is cancelled while it awaits session.commit();
\* "except Exception" does not catch the CancelledError, finally runs.
CommitCancelled(r) ==
    /\ req[r].pc = "commit"
    /\ req' = [req EXCEPT ![r] =
            [@ EXCEPT !.original = "CancelledError", !.exc = "CancelledError",
                      !.pc = "close"]]
    /\ UNCHANGED <<tenants, tenant_engines, tenant_engines_lock, created, call, admin>>

\* An except branch that re-raises without rolling back.
RollbackSkipped(r) ==
    /\ req[r].pc = "rollback"
    /\ req' = [req EXCEPT ![r] = [@ EXCEPT !.pc = "close"]]
    /\ UNCHANGED <<tenants, tenant_engines, tenant_engines_lock, created, call, admin>>

\* An except branch that also throws away the tenant's cached engine.
RollbackEvicting(r) ==
    /\ req[r].pc = "rollback"
    /\ req' = [req EXCEPT ![r] = [@ EXCEPT !.rollbacks = @ + 1, !.pc = "close"]]
    /\ tenant_engines' =
          [u \in DOMAIN tenant_engines \ {req[r].db_url} |-> tenant_engines[u]]
    /\ UNCHANGED <<tenants, tenant_engines_lock, created, call, admin>>

\* 171-172: await session.rollback(); raise
Rollback(r) ==
    /\ req[r].pc = "rollback"
    /\ req' = [req EXCEPT ![r] = [@ EXCEPT !.rollbacks = @ + 1, !.pc = "close"]]
    /\ UNCHANGED <<tenants, tenant_engines, tenant_engines_lock, created, call, admin>>

\* 171, 173: await session.rollback() raises or is cancelled: nothing is
\* rolled back and "raise" is not reached; the exception of the rollback is
\* the one in flight from here on (the caught one is its __context__), and
\* finally runs.
RollbackFails(r, e) ==
    /\ req[r].pc = "rollback"
    /\ req' = [req EXCEPT ![r] = [@ EXCEPT !.exc = e, !.pc = "close"]]
    /\ UNCHANGED <<tenants, tenant_engines, tenant_engines_lock, created, call, admin>>

\* A cleanup that runs only when the generator body ended or raised an
\* Exception (close() in an else / except branch, no finally, no async with).
CloseUnlessCancelled(r) ==
    /\ req[r].pc = "close"
    /\ req' = [req EXCEPT ![r] =
            IF req[r].exc = "CancelledError"
            THEN [@ EXCEPT !.pc = "failed", !.outcome = Reraised(req[r].exc)]
            ELSE [@ EXCEPT !.session = "closed", !.pc = "exit"]]
    /\ UNCHANGED <<tenants, tenant_engines, tenant_engines_lock, created, call, admin>>

\* 173-174: await session.close() in the finally block; the generator goes
\* on to the end of the async with of 166.
Close(r) ==
    /\ req[r].pc = "close"
    /\ req' = [req EXCEPT ![r] = [@ EXCEPT !.session = "closed", !.pc = "exit"]]
    /\ UNCHANGED <<tenants, tenant_engines, tenant_engines_lock, created, call, admin>>

\* 174: await session.close() raises or is cancelled: the session is not
\* closed, and the exception leaves the finally block in the place of the
\* one in flight, if there was one.
CloseFails(r, e) ==
    /\ req[r].pc = "close"
    /\ req' = [req EXCEPT ![r] =
            [@ EXCEPT !.failed_closes = @ + 1, !.exc = e, !.pc = "exit"]]
    /\ UNCHANGED <<tenants, tenant_engines, tenant_engines_lock, created, call, admin>>

\* The end of the async with of 166: the session's __aexit__ awaits close()
\* once more, which closes a session that the close of 174 left open; then
\* the generator ends, or the exception in flight leaves it.
SessionExit(r) ==
    /\ req[r].pc = "exit"
    /\ req' = [req EXCEPT ![r] =
            IF req[r].exc = "none"
            THEN [@ EXCEPT !.session = "closed", !.pc = "done",
                           !.outcome = Completed]
            ELSE [@ EXCEPT !.session = "closed", !.pc = "failed",
                           !.outcome = Reraised(req[r].exc)]]
    /\ UNCHANGED <<tenants, tenant_engines, tenant_engines_lock, created, call, admin>>

\* The end of the async with of 166: the close() that __aexit__ awaits
\* raises or is cancelled.  That exception leaves get_tenant_session, and
\* the session is as the close of 174 left it.
SessionExitFails(r, e) ==
    /\ req[r].pc = "exit"
    /\ req' = [req EXCEPT ![r] =
            [@ EXCEPT !.failed_closes = @ + 1, !.exc = e, !.pc = "failed",
                      !.outcome = Reraised(e)]]
    /\ UNCHANGED <<tenants, tenant_engines, tenant_engines_lock, created, call, admin>>

(***************************************************************************)
(* TenantCreate, modules/tenant/schema.py 8-27: the body of POST /tenants. *)
(***************************************************************************)
DIGITS == <<"0", "1", "2", "3", "4", "5", "6", "7", "8", "9">>

Range(f) == {f[i] : i \in DOMAIN f}

\* pattern "^[a-z0-9]+(?:-[a-z0-9]+)*$": letters and digits in groups
\* separated by single hyphens.
MatchesSubdomainPattern(v) ==
    /\ Len(v) >= 1
    /\ \A i \in 1 .. Len(v) : v[i] \in Range(LOWERCASE) \cup Range(DIGITS) \cup {"-"}
    /\ v[1] # "-"
    /\ v[Len(v)] # "-"
    /\ \A i \in 1 .. Len(v) - 1 : ~(v[i] = "-" /\ v[i + 1] = "-")

SUBDOMAIN_MIN_LENGTH == 3
SUBDOMAIN_MAX_LENGTH == 100

\* 24
Reserved ==
    { <<"w", "w", "w">>, <<"a", "p", "i">>, <<"a", "d", "m", "i", "n">>,
      <<"a", "p", "p">>, <<"m", "a", "i", "l">>, <<"f", "t", "p">>, LOCALHOST }

\* The request body is refused (pydantic ValidationError, HTTP 422).
ValidationError == <<"ValidationError">>

\* A validator that lowercases and refuses nothing.
validate_subdomain_lower_only(v) == Lower(v)

\* 20-27: the field validator, run on a value that met the constraints.
validate_subdomain(v) ==
    IF Lower(v) \in Reserved THEN ValidationError ELSE Lower(v)

\* 12-27: the validated subdomain of TenantCreate(subdomain=v), or the error.
TenantCreate(v) ==
    IF \/ Len(v) < SUBDOMAIN_MIN_LENGTH
       \/ Len(v) > SUBDOMAIN_MAX_LENGTH
       \/ ~MatchesSubdomainPattern(v)
    THEN ValidationError
    ELSE validate_subdomain(v)

(***************************************************************************)
(* TenantService, modules/tenant/service.py, step by step: a call returns  *)
(* to the event loop at each await, and the calls of several clients (and  *)
(* the requests) run in between.  A step is what a call does from one      *)
(* resumption to its next await, or to its end.                            *)
(***************************************************************************)
\* What a step of TenantService leaves alone.
ResolverUnchanged == UNCHANGED <<tenant_engines, tenant_engines_lock, created, req, call>>

\* The call has returned or raised: its locals are gone.
Ended(p, outcome) ==
    [IdleCall EXCEPT !.fn = p.fn, !.pc = "done", !.subdomain = p.subdomain,
                     !.outcome = outcome]

\* A client calls create_tenant with valid TenantCreate data; the call
\* runs to the SELECT of line 30.
CreateStart(c, subdomain) ==
    /\ admin.proc[c].pc \in {"idle", "done"}
    /\ admin' = [admin EXCEPT !.proc[c] =
                    [IdleCall EXCEPT !.fn = "create_tenant", !.pc = "check",
                                     !.subdomain = subdomain]]
    /\ UNCHANGED tenants
    /\ ResolverUnchanged

\* 30-45: the SELECT is answered; ValueError when the subdomain has a row,
\* else the call goes on to CREATE DATABASE.
CreateCheck(c) ==
    /\ admin.proc[c].pc = "check"
    /\ admin' = [admin EXCEPT !.proc[c] =
                    IF RowsBySubdomain(tenants, admin.proc[c].subdomain) # {}
                    THEN Ended(@, SubdomainExists)
                    ELSE [@ EXCEPT !.pc = "create_db"]]
    /\ UNCHANGED tenants
    /\ ResolverUnchanged

\* A server on which CREATE DATABASE of an existing database is no error.
CreateDatabaseIfNotExists(c) ==
    /\ admin.proc[c].pc = "create_db"
    /\ LET db_name == TenantDbName(admin.proc[c].subdomain)
       IN  admin' = [admin EXCEPT !.databases = @ \cup {db_name},
                                  !.proc[c] = [@ EXCEPT !.pc = "commit_db"]]
    /\ UNCHANGED tenants
    /\ ResolverUnchanged

\* 45-50: CREATE DATABASE tenant_<subdomain> is answered; the server
\* refuses a name that exists, and the except branch turns the error into
\* ValueError; else the database is there and the call goes on to the
\* commit of line 46.
CreateDatabase(c) ==
    /\ admin.proc[c].pc = "create_db"
    /\ LET db_name == TenantDbName(admin.proc[c].subdomain)
       IN  admin' = IF db_name \in admin.databases
                    THEN [admin EXCEPT !.proc[c] = Ended(@, DatabaseNotCreated)]
                    ELSE [admin EXCEPT !.databases = @ \cup {db_name},
                                       !.proc[c] = [@ EXCEPT !.pc = "commit_db"]]
    /\ UNCHANGED tenants
    /\ ResolverUnchanged

\* 45-50: CREATE DATABASE fails for another reason (it is sent inside a
\* transaction block, no privilege, no connection): ValueError, no database.
CreateDatabaseFails(c) ==
    /\ admin.proc[c].pc = "create_db"
    /\ admin' = [admin EXCEPT !.proc[c] = Ended(@, DatabaseNotCreated)]
    /\ UNCHANGED tenants
    /\ ResolverUnchanged

\* 46-66: the commit after CREATE DATABASE returns; the call builds the
\* connection target (53), which raises AttributeError when the settings
\* have no DB_PASS, and the row (56-65), and goes on to the commit of
\* line 66.
CreateDatabaseCommit(c) ==
    /\ admin.proc[c].pc = "commit_db"
    /\ admin' = [admin EXCEPT !.proc[c] =
                    IF admin.DB_PASS THEN [@ EXCEPT !.pc = "insert"]
                    ELSE Ended(@, AttributeError)]
    /\ UNCHANGED tenants
    /\ ResolverUnchanged

\* 46-50: the commit after CREATE DATABASE raises: ValueError, while the
\* database (which no transaction undoes) is there.
CreateDatabaseCommitFails(c) ==
    /\ admin.proc[c].pc = "commit_db"
    /\ admin' = [admin EXCEPT !.proc[c] = Ended(@, DatabaseNotCreated)]
    /\ UNCHANGED tenants
    /\ ResolverUnchanged

\* 66-67: the commit sends the INSERT; the unique constraints of the table
\* (model.py 20-29) refuse a second row of the subdomain or db_name, else
\* the row is in the table and the call goes on to the refresh of line 67.
CreateInsert(c) ==
    /\ admin.proc[c].pc = "insert"
    /\ LET subdomain == admin.proc[c].subdomain
           new_tenant == NewTenant(Cardinality(tenants) + 1, subdomain)
           clash == \E t \in tenants :
                       t.subdomain = subdomain \/ t.db_name = new_tenant.db_name
       IN  /\ tenants' = IF clash THEN tenants ELSE tenants \cup {new_tenant}
           /\ admin' = [admin EXCEPT !.proc[c] =
                           IF clash THEN Ended(@, IntegrityError)
                           ELSE [@ EXCEPT !.pc = "refresh"]]
    /\ ResolverUnchanged

\* 67-76: the refresh returns and create_tenant returns the tenant.
CreateRefresh(c) ==
    /\ admin.proc[c].fn = "create_tenant"
    /\ admin.proc[c].pc = "refresh"
    /\ admin' = [admin EXCEPT !.proc[c] = Ended(@, TenantCreated)]
    /\ UNCHANGED tenants
    /\ ResolverUnchanged

\* A client calls update_tenant with a name and a status, each of them
\* given, given as None or not given; the call runs to the SELECT of
\* get_tenant_by_id (87-90).
UpdateStart(c, tenant_id, new_name, new_status) ==
    /\ admin.proc[c].pc \in {"idle", "done"}
    /\ admin' = [admin EXCEPT !.proc[c] =
                    [IdleCall EXCEPT !.fn = "update_tenant", !.pc = "select",
                                     !.tenant_id = tenant_id,
                                     !.name = new_name,
                                     !.status = new_status]]
    /\ UNCHANGED tenants
    /\ ResolverUnchanged

\* 112-122: the SELECT is answered; None for an unknown id, else the name
\* and the status given are set on the object read (which keeps what is
\* not given) and the call goes on to the commit.
UpdateSelect(c) ==
    /\ admin.proc[c].fn = "update_tenant"
    /\ admin.proc[c].pc = "select"
    /\ LET rows == RowsById(tenants, admin.proc[c].tenant_id)
           tenant == CHOOSE t \in rows : TRUE
       IN  admin' = [admin EXCEPT !.proc[c] =
                        IF rows = {} THEN Ended(@, NoneReturned)
                        ELSE [@ EXCEPT !.pc = "commit",
                                       !.loaded = tenant.status,
                                       !.status = IF @ = Unset THEN tenant.status
                                                  ELSE @,
                                       !.loaded_name = tenant.name,
                                       !.name = IF @ = Unset THEN tenant.name
                                                ELSE @]]
    /\ UNCHANGED tenants
    /\ ResolverUnchanged

\* 122-123: the commit sends one UPDATE with the changed attributes; a
\* NULL name or status is refused (model.py 19, 34-39: nullable=False), the
\* row stays as it is and the exception leaves update_tenant; else the call
\* goes on to the refresh.
UpdateCommit(c) ==
    /\ admin.proc[c].fn = "update_tenant"
    /\ admin.proc[c].pc = "commit"
    /\ LET p == admin.proc[c]
           refused == p.status = NoStatus \/ p.name = NoName
       IN  /\ tenants' =
                 IF refused THEN tenants
                 ELSE {IF t.id = p.tenant_id
                       THEN [t EXCEPT
                                !.status = IF Dirty(p) THEN p.status ELSE @,
                                !.name = IF DirtyName(p) THEN p.name ELSE @]
                       ELSE t : t \in tenants}
           /\ admin' = [admin EXCEPT !.proc[c] =
                           IF refused THEN Ended(@, IntegrityError)
                           ELSE [@ EXCEPT !.pc = "refresh", !.loaded = p.status,
                                          !.loaded_name = p.name]]
    /\ ResolverUnchanged

\* 123-127: the refresh returns and update_tenant returns the tenant.
UpdateRefresh(c) ==
    /\ admin.proc[c].fn = "update_tenant"
    /\ admin.proc[c].pc = "refresh"
    /\ admin' = [admin EXCEPT !.proc[c] = Ended(@, TenantUpdated)]
    /\ UNCHANGED tenants
    /\ ResolverUnchanged

\* A client calls delete_tenant; the call runs to the SELECT of
\* get_tenant_by_id (87-90).
DeleteStart(c, tenant_id) ==
    /\ admin.proc[c].pc \in {"idle", "done"}
    /\ admin' = [admin EXCEPT !.proc[c] =
                    [IdleCall EXCEPT !.fn = "delete_tenant", !.pc = "select",
                                     !.tenant_id = tenant_id,
                                     !.status = "suspended"]]
    /\ UNCHANGED tenants
    /\ ResolverUnchanged

\* 137-144: the SELECT is answered; False for an unknown id, else the
\* status of the object read is set to suspended and the call goes on to
\* the commit.
DeleteSelect(c) ==
    /\ admin.proc[c].fn = "delete_tenant"
    /\ admin.proc[c].pc = "select"
    /\ LET rows == RowsById(tenants, admin.proc[c].tenant_id)
       IN  admin' = [admin EXCEPT !.proc[c] =
                        IF rows = {} THEN Ended(@, FalseReturned)
                        ELSE [@ EXCEPT !.pc = "commit",
                                       !.loaded = (CHOOSE t \in rows : TRUE).status]]
    /\ UNCHANGED tenants
    /\ ResolverUnchanged

\* A delete_tenant whose commit deletes the row.
DeleteCommitRemoving(c) ==
    /\ admin.proc[c].fn = "delete_tenant"
    /\ admin.proc[c].pc = "commit"
    /\ tenants' = {t \in tenants : t.id # admin.proc[c].tenant_id}
    /\ admin' = [admin EXCEPT !.proc[c] = Ended(@, TrueReturned)]
    /\ ResolverUnchanged

\* A delete_tenant that also drops the suspended tenant's cached engine.
DeleteCommitEvicting(c) ==
    /\ admin.proc[c].fn = "delete_tenant"
    /\ admin.proc[c].pc = "commit"
    /\ tenants' =
          {IF t.id = admin.proc[c].tenant_id THEN [t EXCEPT !.status = "suspended"]
           ELSE t : t \in tenants}
    /\ admin' = [admin EXCEPT !.proc[c] = Ended(@, TrueReturned)]
    /\ LET gone == {t.db_url : t \in RowsById(tenants, admin.proc[c].tenant_id)}
           kept == DOMAIN tenant_engines \ gone
       IN  tenant_engines' = [u \in kept |-> tenant_engines[u]]
    /\ UNCHANGED <<tenant_engines_lock, created, req, call>>

\* 144-148: the commit sends the UPDATE of the status, if it was not
\* suspended when read, and delete_tenant returns True.
DeleteCommit(c) ==
    /\ admin.proc[c].fn = "delete_tenant"
    /\ admin.proc[c].pc = "commit"
    /\ tenants' =
          IF Dirty(admin.proc[c])
          THEN {IF t.id = admin.proc[c].tenant_id
                THEN [t EXCEPT !.status = "suspended"] ELSE t : t \in tenants}
          ELSE tenants
    /\ admin' = [admin EXCEPT !.proc[c] = Ended(@, TrueReturned)]
    /\ ResolverUnchanged

\* The awaits of TenantService: db.execute at 30, 45, 88 (by way of 112 and
\* 137), db.commit at 46, 66, 122, 144, db.refresh at 67, 123.
ServiceAwaits == {"check", "create_db", "commit_db", "insert", "select", "commit",
                  "refresh"}

\* An await of the call of client c raises or is cancelled, and the
\* exception leaves the call: nothing more is written.  At 45 and 46, inside
\* the try of 44-50, this is the cancellation only (what is raised there is
\* caught and becomes ValueError).
ServiceAwaitFails(c, e) ==
    /\ admin.proc[c].pc \in ServiceAwaits
    /\ admin.proc[c].pc \in {"create_db", "commit_db"} => e = "CancelledError"
    /\ admin' = [admin EXCEPT !.proc[c] = Ended(@, ServiceRaised(e))]
    /\ UNCHANGED tenants
    /\ ResolverUnchanged

\* The statuses and the names update_tenant is called with.
UpdateStatuses == Statuses \cup {NoStatus, Unset}
UpdateNames == {RENAMED, NoName, Unset}

CreateStep(c) ==
    \/ CreateCheck(c)
    \/ CreateDatabase(c)
    \/ CreateDatabaseFails(c)
    \/ CreateDatabaseCommit(c)
    \/ CreateDatabaseCommitFails(c)
    \/ CreateInsert(c)
    \/ CreateRefresh(c)
    \/ \E e \in Failures : admin.proc[c].fn = "create_tenant" /\ ServiceAwaitFails(c, e)

UpdateStep(c) ==
    \/ UpdateSelect(c)
    \/ UpdateCommit(c)
    \/ UpdateRefresh(c)
    \/ \E e \in Failures : admin.proc[c].fn = "update_tenant" /\ ServiceAwaitFails(c, e)

DeleteStep(c) ==
    \/ DeleteSelect(c)
    \/ DeleteCommit(c)
    \/ \E e \in Failures : admin.proc[c].fn = "delete_tenant" /\ ServiceAwaitFails(c, e)

\* The steps of a call of client c, from its first await on.
ServiceStep(c) ==
    \/ CreateStep(c)
    \/ UpdateStep(c)
    \/ DeleteStep(c)

\* Client c calls the management API, or a call of it goes on.
AdminStep(c) ==
    \/ \E s \in TenantSubdomains : CreateStart(c, s)
    \/ \E id \in TenantIds, nm \in UpdateNames, st \in UpdateStatuses :
          UpdateStart(c, id, nm, st)
    \/ \E id \in TenantIds : DeleteStart(c, id)
    \/ ServiceStep(c)

(***************************************************************************)
(* The system: requests served concurrently with tenant management.        *)
(***************************************************************************)
\* The steps of a request from its directory query to the engine.
DirectoryStep(r) ==
    \/ Lookup(r)
    \/ \E e \in Failures : LookupFails(r, e)
    \/ CentralExit(r)
    \/ \E e \in Failures : CentralExitFails(r, e)
    \/ EngineAcquire(r)
    \/ EngineHit(r)
    \/ EngineMiss(r)
    \/ EngineCreate(r)
    \/ EngineCreateFails(r)

\* The steps of a request from the yield on: the route ends one way or
\* another, and the event loop runs what follows in the generator.
SessionStep(r) ==
    \/ CallerCompletes(r)
    \/ CallerRaises(r)
    \/ CallerRaisesHTTPException(r)
    \/ CallerCancelled(r)
    \/ Commit(r)
    \/ CommitFails(r)
    \/ CommitCancelled(r)
    \/ Rollback(r)
    \/ \E e \in Failures : RollbackFails(r, e)
    \/ Close(r)
    \/ \E e \in Failures : CloseFails(r, e)
    \/ SessionExit(r)
    \/ \E e \in Failures : SessionExitFails(r, e)

\* The steps of a request after it has read its Host header.
ResolveStep(r) ==
    \/ DirectoryStep(r)
    \/ OpenSession(r)
    \/ SessionStep(r)

RequestStep(r) ==
    \/ \E h \in Hosts : Start(r, h)
    \/ ResolveStep(r)

\* The whole: the requests run while one client manages the tenants, with
\* every call the management API can be given.  The specifications that
\* follow have the same steps and fewer calls.
Next ==
    \/ \E r \in Requests : RequestStep(r)
    \/ \E c \in {1} : AdminStep(c)

Spec == Init /\ [][Next]_vars

\* The requests alone, on the tenants table as it starts.
RequestNext == \E r \in Requests : RequestStep(r)

RequestSpec == Init /\ [][RequestNext]_vars

\* Every route comes to an end and a ready coroutine is eventually resumed.
FairSpec ==
    Init /\ [][RequestNext]_vars /\ \A r \in Requests : WF_vars(SessionStep(r))

\* The requests, while one client creates the tenant acme, pauses it and
\* deletes it (its key is 2: the table starts with one tenant).
ManagedNext ==
    \/ \E r \in Requests : RequestStep(r)
    \/ \E c \in {1} : CreateStart(c, ACME)
    \/ \E c \in {1} : UpdateStart(c, 2, Unset, "paused")
    \/ \E c \in {1} : DeleteStart(c, 2)
    \/ \E c \in {1} : ServiceStep(c)

ManagedSpec == Init /\ [][ManagedNext]_vars

\* The requests, while one client creates the tenant acme and deletes it.
ServeNext ==
    \/ \E r \in Requests : RequestStep(r)
    \/ \E c \in {1} : CreateStart(c, ACME)
    \/ \E c \in {1} : DeleteStart(c, 2)
    \/ \E c \in {1} : CreateStep(c) \/ DeleteStep(c)

ServeSpec == Init /\ [][ServeNext]_vars

\* The requests, while one client deletes the tenant the table starts with
\* and updates it: to each status, with no name given or with name=None.
SuspendNext ==
    \/ \E r \in Requests : RequestStep(r)
    \/ \E c \in {1} : DeleteStart(c, 1)
    \/ \E c \in {1}, nm \in {Unset, NoName}, st \in Statuses :
          UpdateStart(c, 1, nm, st)
    \/ \E c \in {1} : UpdateStep(c) \/ DeleteStep(c)

SuspendSpec == Init /\ [][SuspendNext]_vars

(***************************************************************************)
(* The same system, the requests carrying one tenant's host name in two    *)
(* spellings.                                                              *)
(***************************************************************************)
ACME_UPPER == <<"A", "C", "M", "E">>

CaseHosts ==
    { ACME \o <<".">> \o LOCALHOST \o PORT8000,
      ACME_UPPER \o <<".">> \o LOCALHOST \o PORT8000 }

CaseRequestStep(r) ==
    \/ \E h \in CaseHosts : Start(r, h)
    \/ ResolveStep(r)

CaseNext ==
    \/ \E r \in Requests : CaseRequestStep(r)
    \/ \E c \in {1} : CreateStart(c, ACME) \/ CreateStep(c)

CaseSpec == Init /\ [][CaseNext]_vars

(***************************************************************************)
(* get_current_tenant_info (177-204), called while tenants are managed.    *)
(***************************************************************************)
InfoHosts ==
    Hosts \cup
    { ACME_UPPER \o <<".">> \o LOCALHOST \o PORT8000,
      <<".">> \o LOCALHOST,
      BETA \o <<".", "x">> \o LOCALHOST }

\* The helper's None, written as a record so that it compares with the
\* records the helper returns.
NoTenantInfo == [subdomain |-> None, db_url |-> None]

\* A helper whose SELECT has no status condition.
get_current_tenant_info_any_status(table, host) ==
    LET subdomain == extract_subdomain_from_host(host, LOCALHOST)
    IN  IF Falsy(subdomain) THEN NoTenantInfo
        ELSE LET rows == RowsBySubdomain(table, subdomain)
             IN  IF rows = {} THEN NoTenantInfo
                 ELSE LET tenant_record == CHOOSE t \in rows : TRUE
                      IN  [subdomain |-> tenant_record.subdomain,
                           db_url |-> tenant_record.db_url]

\* 184-204: None without a subdomain (187-188) or without a row that is
\* active (191-198), else the row's subdomain and db_url (the display name,
\* which the rows of this model do not carry, is left out).
get_current_tenant_info(table, host) ==
    LET subdomain == extract_subdomain_from_host(host, LOCALHOST)
    IN  IF Falsy(subdomain) THEN NoTenantInfo
        ELSE LET rows == {t \in RowsBySubdomain(table, subdomain) :
                            t.status = "active"}
             IN  IF rows = {} THEN NoTenantInfo
                 ELSE LET tenant_record == CHOOSE t \in rows : TRUE
                      IN  [subdomain |-> tenant_record.subdomain,
                           db_url |-> tenant_record.db_url]

\* 184-192: the helper is called with Host header h; without a subdomain it
\* returns None at once (187-188), else it opens a central session and
\* sends the SELECT.
InfoCall(h) ==
    /\ IF call.fn = "none" THEN TRUE ELSE call.pc = "done"
    /\ call' = [fn |-> "get_current_tenant_info", host |-> h,
                pc |-> IF Falsy(extract_subdomain_from_host(h, LOCALHOST))
                       THEN "done" ELSE "query",
                result |-> NoTenantInfo, raised |-> "none"]
    /\ UNCHANGED <<tenants, tenant_engines, tenant_engines_lock, created, req, admin>>

\* 192-204: the SELECT is answered from the table as it is now; the value
\* to return is built and the helper goes on to the end of the async with
\* of 191.
InfoQuery ==
    /\ call.fn = "get_current_tenant_info"
    /\ call.pc = "query"
    /\ call' = [call EXCEPT !.pc = "exit",
                            !.result = get_current_tenant_info(tenants, call.host)]
    /\ UNCHANGED <<tenants, tenant_engines, tenant_engines_lock, created, req, admin>>

\* 192: the await of the query raises or is cancelled; no value is built
\* and the exception goes on to the end of the async with of 191.
InfoQueryFails(e) ==
    /\ call.fn = "get_current_tenant_info"
    /\ call.pc = "query"
    /\ call' = [call EXCEPT !.pc = "exit", !.raised = e]
    /\ UNCHANGED <<tenants, tenant_engines, tenant_engines_lock, created, req, admin>>

\* The end of the async with of 191: the central session is closed and the
\* helper returns, or the exception of the query leaves it.
InfoReturn ==
    /\ call.fn = "get_current_tenant_info"
    /\ call.pc = "exit"
    /\ call' = [call EXCEPT !.pc = "done"]
    /\ UNCHANGED <<tenants, tenant_engines, tenant_engines_lock, created, req, admin>>

\* The end of the async with of 191: the close() of the central session
\* raises or is cancelled; the helper returns nothing and that exception
\* leaves it.
InfoReturnFails(e) ==
    /\ call.fn = "get_current_tenant_info"
    /\ call.pc = "exit"
    /\ call' = [call EXCEPT !.pc = "done", !.result = NoTenantInfo, !.raised = e]
    /\ UNCHANGED <<tenants, tenant_engines, tenant_engines_lock, created, req, admin>>

InfoNext ==
    \/ \E h \in InfoHosts : InfoCall(h)
    \/ InfoQuery
    \/ InfoReturn
    \/ \E e \in Failures : InfoQueryFails(e)
    \/ \E e \in Failures : InfoReturnFails(e)
    \/ \E c \in {1} : AdminStep(c)

InfoSpec == Init /\ [][InfoNext]_vars

(***************************************************************************)
(* DatabaseEngine (config/database.py): a psycopg2 SimpleConnectionPool     *)
(* and execute_procedure, called from one thread, one call after another.  *)
(***************************************************************************)
\* __init__(self, minconn=1, maxconn=5)
minconn == 1
maxconn == 5

\* Calls of execute_procedure in one run.
MaxCalls == 6

\* self.pool = None (line 19), as a record so that it compares with a pool.
NoPool == [made |-> FALSE, closed |-> FALSE, _pool |-> 0, _used |-> 0]

\* The state after DatabaseEngine() (10-19). No call of execute_procedure is
\* running: conn and cursor are the locals of a call, lost says that the
\* connection of the call is closed (the server is gone), intrans that it
\* is inside a transaction (open or failed); result and raised are what the
\* last call returned or raised.
ProcInit ==
    /\ tenants = {NewTenant(1, BETA)}
    /\ tenant_engines = <<>>
    /\ tenant_engines_lock = NoHolder
    /\ created = <<>>
    /\ req = [r \in Requests |-> InitialRequest]
    /\ admin = NoCalls
    /\ call = [fn |-> "execute_procedure", pool |-> NoPool, pc |-> "idle",
               conn |-> FALSE, lost |-> FALSE, intrans |-> FALSE,
               cursor |-> "unbound", fetch |-> FALSE,
               result |-> "None", raised |-> "none", calls |-> 0]

ProcUnchanged == UNCHANGED <<tenants, tenant_engines, tenant_engines_lock, created, req, admin>>

\* 21-31: create_engine; a new pool, which opens minconn connections,
\* takes the place of self.pool, or the constructor raises and self.pool
\* stays as it was.
create_engine(ok) ==
    /\ call.pc = "idle"
    /\ call' = IF ok
               THEN [call EXCEPT !.pool = [made |-> TRUE, closed |-> FALSE,
                                           _pool |-> minconn, _used |-> 0]]
               ELSE call
    /\ ProcUnchanged

\* 54-60: close_engine; closeall() closes the connections of the pool,
\* idle and in use, and marks the pool closed (its lists stay as they
\* are); on a closed pool it raises PoolError, which is caught.
close_engine ==
    /\ call.pc = "idle"
    /\ call.pool.made
    /\ call' = [call EXCEPT !.pool.closed = TRUE]
    /\ ProcUnchanged

\* What a call leaves when it ends: its locals are gone.
Returned(c, result, raised) ==
    [c EXCEPT !.pc = "idle", !.conn = FALSE, !.lost = FALSE, !.intrans = FALSE,
              !.cursor = "unbound",
              !.result = result, !.raised = raised, !.calls = @ + 1]

\* 70-73 with get_connection (33-44): no pool, or getconn raises PoolError
\* (the pool is closed, or every connection is out) or cannot connect:
\* None, and execute_procedure returns None; else an idle connection, or a
\* new one, is checked out.
GetConnection(fetch, connects) ==
    /\ call.pc = "idle"
    /\ call.calls < MaxCalls
    /\ call' =
          IF ~call.pool.made \/ call.pool.closed
          THEN Returned(call, "None", "none")
          ELSE IF call.pool._pool > 0
          THEN [call EXCEPT !.pool._pool = @ - 1, !.pool._used = @ + 1,
                            !.conn = TRUE, !.fetch = fetch, !.pc = "cursor",
                            !.result = "None", !.raised = "none"]
          ELSE IF call.pool._used = maxconn \/ ~connects
          THEN Returned(call, "None", "none")
          ELSE [call EXCEPT !.pool._used = @ + 1,
                            !.conn = TRUE, !.fetch = fetch, !.pc = "cursor",
                            !.result = "None", !.raised = "none"]
    /\ ProcUnchanged

\* 76: cursor = conn.cursor(...)
Cursor ==
    /\ call.pc = "cursor"
    /\ call' = [call EXCEPT !.cursor = "open", !.pc = "callproc"]
    /\ ProcUnchanged

\* 76 raises (the connection is closed): cursor is never bound.
CursorFails ==
    /\ call.pc = "cursor"
    /\ call' = [call EXCEPT !.pc = "except"]
    /\ ProcUnchanged

\* 77-79: callproc (which begins a transaction), result = None.
Callproc ==
    /\ call.pc = "callproc"
    /\ call' = [call EXCEPT !.result = "None", !.intrans = TRUE,
                            !.pc = IF call.fetch THEN "fetch" ELSE "commit"]
    /\ ProcUnchanged

\* 77 raises: the server refuses the call (the transaction is failed), or
\* the connection is lost.
CallprocFails(lost) ==
    /\ call.pc = "callproc"
    /\ call' = [call EXCEPT !.intrans = TRUE, !.lost = lost, !.pc = "except"]
    /\ ProcUnchanged

\* 80-84: fetchall gives the rows, or raises and result is None.
Fetch(rows) ==
    /\ call.pc = "fetch"
    /\ call' = [call EXCEPT !.result = IF rows THEN "rows" ELSE "None",
                            !.pc = "commit"]
    /\ ProcUnchanged

\* 85-87: commit, then return result by way of the finally block.
ProcCommit ==
    /\ call.pc = "commit"
    /\ call' = [call EXCEPT !.intrans = FALSE, !.pc = "finally"]
    /\ ProcUnchanged

\* 85 raises: the commit is refused, or the connection is lost.
ProcCommitFails(lost) ==
    /\ call.pc = "commit"
    /\ call' = [call EXCEPT !.lost = lost, !.pc = "except"]
    /\ ProcUnchanged

\* 88-91: the handler rolls back and returns None; a rollback that raises
\* (as it does on a connection that is lost, or because it loses the
\* connection) leaves its exception pending over the finally block.
Except(rolls_back, lost) ==
    /\ call.pc = "except"
    /\ rolls_back => (~call.lost /\ ~lost)
    /\ call' = [call EXCEPT !.result = "None",
                            !.raised = IF rolls_back THEN "none" ELSE "Exception",
                            !.intrans = IF rolls_back THEN FALSE ELSE @,
                            !.lost = @ \/ lost,
                            !.pc = "finally"]
    /\ ProcUnchanged

\* 93: cursor.close(); with cursor unbound this raises UnboundLocalError,
\* which leaves the finally block and the function at once.
CursorClose ==
    /\ call.pc = "finally"
    /\ call' = IF call.cursor = "unbound"
               THEN Returned(call, "None", "UnboundLocalError")
               ELSE [call EXCEPT !.cursor = "closed", !.pc = "return_connection"]
    /\ ProcUnchanged

\* putconn of psycopg2's pool has to roll the connection back before it
\* keeps it: fewer than minconn are idle and the connection, not lost, is
\* inside a transaction.
PutconnRollsBack ==
    /\ call.pool._pool < minconn
    /\ ~call.lost
    /\ call.intrans

\* 94 with return_connection (46-52): while fewer than minconn are idle,
\* putconn keeps the connection idle (after rolling back what it is
\* inside of) unless it is lost, and closes it otherwise; then it takes the
\* connection out of the connections in use.  When its rollback raises,
\* putconn ends there: the exception is caught at 51-52 and the connection
\* stays with the connections in use.  Then the call returns result, or
\* raises what is pending.
ReturnConnection(putconn_ok) ==
    /\ call.pc = "return_connection"
    /\ ~putconn_ok => PutconnRollsBack
    /\ call' = Returned(IF ~putconn_ok THEN call
                        ELSE [call EXCEPT
                                 !.pool._pool =
                                    IF @ < minconn /\ ~call.lost THEN @ + 1 ELSE @,
                                 !.pool._used = @ - 1],
                        IF call.raised = "none" THEN call.result ELSE "None",
                        call.raised)
    /\ ProcUnchanged

ProcNext ==
    \/ \E ok \in BOOLEAN : create_engine(ok)
    \/ close_engine
    \/ \E fetch \in BOOLEAN, connects \in BOOLEAN : GetConnection(fetch, connects)
    \/ Cursor
    \/ CursorFails
    \/ Callproc
    \/ \E lost \in BOOLEAN : CallprocFails(lost)
    \/ \E rows \in BOOLEAN : Fetch(rows)
    \/ ProcCommit
    \/ \E lost \in BOOLEAN : ProcCommitFails(lost)
    \/ \E rolls_back \in BOOLEAN, lost \in BOOLEAN : Except(rolls_back, lost)
    \/ CursorClose
    \/ \E putconn_ok \in BOOLEAN : ReturnConnection(putconn_ok)

ProcSpec == ProcInit /\ [][ProcNext]_vars

(***************************************************************************)
(* AuthService tokens (modules/auth/service.py 34-84) and the two routes   *)
(* that decode them (modules/auth/router.py 23-46, 139-163). Time is in    *)
(* days; every token is issued on day 0 and presented on a later day.      *)
(***************************************************************************)
\* The last day a token is presented on.
MaxDays == 8

\* timedelta(days=1) (service.py 43) and timedelta(days=7) (service.py 54).
ACCESS_TOKEN_DAYS == 1
REFRESH_TOKEN_DAYS == 7

HTTP_401_UNAUTHORIZED == 401

\* The signing keys: settings.JWT_SECRET, and the values a deployment may
\* give settings.JWT_SECRET_REFRESH (the same key, or one of its own); a
\* key that is neither signs the forged tokens.
JWT_SECRET == "key_1"
RefreshSecrets == {"key_1", "key_2"}
ForeignKey == "key_3"

\* data["sub"] of the token's creator, "" when the data has none.
Subjects == {"user", ""}

\* A signed token: the key of its signature and its claims.
Signed(key, type, exp, sub) ==
    [wellformed |-> TRUE, key |-> key, type |-> type, exp |-> exp, sub |-> sub]

\* A text that is not a JWT.
Malformed == [wellformed |-> FALSE, key |-> "", type |-> "", exp |-> 0, sub |-> ""]

\* 35-48: expires_delta = 0 stands for None (a zero timedelta is falsy too).
create_access_token(sub, expires_delta) ==
    Signed(JWT_SECRET, "access",
           IF expires_delta # 0 THEN expires_delta ELSE ACCESS_TOKEN_DAYS, sub)

\* 51-61
create_refresh_token(sub, refresh_secret) ==
    Signed(refresh_secret, "refresh", REFRESH_TOKEN_DAYS, sub)

\* The tokens issued for a token type.
IssuedFor(token_type, refresh_secret) ==
    IF token_type = "access"
    THEN {create_access_token(sub, d) : sub \in Subjects, d \in {0, 2}}
    ELSE {create_refresh_token(sub, refresh_secret) : sub \in Subjects}

\* Everything a client may present: issued tokens, tokens signed with a
\* foreign key, and a text that is not a token.
Tokens(refresh_secret) ==
    IssuedFor("access", refresh_secret) \cup IssuedFor("refresh", refresh_secret)
    \cup {Signed(ForeignKey, t, REFRESH_TOKEN_DAYS, "user") : t \in {"access", "refresh"}}
    \cup {Malformed}

\* jwt.decode(token, secret, algorithms=["HS256"]) of PyJWT: the token is
\* parsed, its signature verified, then its exp claim compared with now.
jwt_decode(token, secret, now) ==
    IF ~token.wellformed THEN "DecodeError"
    ELSE IF token.key # secret THEN "InvalidSignatureError"
    ELSE IF token.exp <= now THEN "ExpiredSignatureError"
    ELSE "payload"

\* 64-84: "payload" (the token's claims), "None", or the exception raised.
\* An exception other than ExpiredSignatureError reaches the clause
\* except jwt.JWTError (82); the module jwt (PyJWT) has no attribute
\* JWTError, so evaluating the clause raises AttributeError.
decode_token(token, token_type, refresh_secret, now) ==
    LET secret == IF token_type = "access" THEN JWT_SECRET ELSE refresh_secret
        decoded == jwt_decode(token, secret, now)
    IN  IF decoded = "payload"
        THEN IF token.type # token_type THEN "None" ELSE "payload"
        ELSE IF decoded = "ExpiredSignatureError" THEN "None"
        ELSE "AttributeError"

\* What a route does with the token: 401, an exception nobody handles, or
\* it goes on to look the user up (router.py 49, 167: not modelled).
NoRouteOutcome == [kind |-> "none", status_code |-> 0, decoded |-> "none"]

RouteOutcome(token, decoded) ==
    IF decoded = "AttributeError"
    THEN [kind |-> "unhandled", status_code |-> 0, decoded |-> decoded]
    ELSE IF decoded = "None" \/ token.sub = ""
    THEN [kind |-> "HTTPException", status_code |-> HTTP_401_UNAUTHORIZED,
          decoded |-> decoded]
    ELSE [kind |-> "continues", status_code |-> 0, decoded |-> decoded]

\* A request with a token is about to reach one of the two routes.
TokenInit ==
    /\ tenants = {NewTenant(1, BETA)}
    /\ tenant_engines = <<>>
    /\ tenant_engines_lock = NoHolder
    /\ created = <<>>
    /\ req = [r \in Requests |-> InitialRequest]
    /\ admin = NoCalls
    /\ \E fn \in {"get_current_user", "refresh_token"},
          refresh_secret \in RefreshSecrets, now \in 0 .. MaxDays :
          \E token \in Tokens(refresh_secret) :
             call = [fn |-> fn, JWT_SECRET_REFRESH |-> refresh_secret,
                     token |-> token, now |-> now, outcome |-> NoRouteOutcome]

\* router.py 23-46: decode as an access token; 401 without a payload or
\* without a sub claim.
get_current_user ==
    /\ call.fn = "get_current_user"
    /\ call.outcome = NoRouteOutcome
    /\ call' = [call EXCEPT !.outcome =
                   RouteOutcome(call.token,
                       decode_token(call.token, "access",
                                    call.JWT_SECRET_REFRESH, call.now))]
    /\ UNCHANGED <<tenants, tenant_engines, tenant_engines_lock, created, req, admin>>

\* router.py 139-163: decode as a refresh token; 401 without a payload or
\* without a sub claim.
refresh_token ==
    /\ call.fn = "refresh_token"
    /\ call.outcome = NoRouteOutcome
    /\ call' = [call EXCEPT !.outcome =
                   RouteOutcome(call.token,
                       decode_token(call.token, "refresh",
                                    call.JWT_SECRET_REFRESH, call.now))]
    /\ UNCHANGED <<tenants, tenant_engines, tenant_engines_lock, created, req, admin>>

TokenNext == get_current_user \/ refresh_token

TokenSpec == TokenInit /\ [][TokenNext]_vars

(***************************************************************************)
(* POST /tenants, modules/tenant/router.py 25-49: the body is validated as *)
(* TenantCreate, then TenantService.create_tenant stores the tenant.       *)
(***************************************************************************)
\* First letter in capitals / all letters in capitals.
Capitalized(s) ==
    [i \in 1 .. Len(s) |->
        IF i = 1 /\ \E k \in 1 .. Len(LOWERCASE) : LOWERCASE[k] = s[i]
        THEN UPPERCASE[CHOOSE k \in 1 .. Len(LOWERCASE) : LOWERCASE[k] = s[i]]
        ELSE s[i]]

Upper(s) ==
    [i \in 1 .. Len(s) |->
        IF \E k \in 1 .. Len(LOWERCASE) : LOWERCASE[k] = s[i]
        THEN UPPERCASE[CHOOSE k \in 1 .. Len(LOWERCASE) : LOWERCASE[k] = s[i]]
        ELSE s[i]]

SHOP == <<"s", "h", "o", "p">>
A_B == <<"a", "-", "b">>

\* Subdomains that POST /tenants is sent: the reserved words and some
\* others, valid and invalid, each as written, capitalized and in capitals.
SubdomainInputs ==
    LET words == Reserved \cup
                 {ACME, BETA, SHOP, A_B, <<"a", "b">>, <<"-", "a", "b">>,
                  <<"a", "b", "-">>, <<"a", "-", "-", "b">>, <<"w", "w", "w", "1">>,
                  <<>>}
    IN  words \cup {Capitalized(w) : w \in words} \cup {Upper(w) : w \in words}

\* 26: the client sends a body and FastAPI builds
\* tenant_data = TenantCreate(**body).
PostTenantValidate(v) ==
    /\ admin.proc[1].pc \in {"idle", "done"}
    /\ call' = [fn |-> "TenantCreate", subdomain |-> v, result |-> TenantCreate(v)]
    /\ UNCHANGED <<tenants, tenant_engines, tenant_engines_lock, created, req, admin>>

\* 41: the route awaits TenantService.create_tenant(db, tenant_data), with
\* valid data only; the call runs to its first await.
PostTenantCreate ==
    /\ call.fn = "TenantCreate"
    /\ call.result # ValidationError
    /\ admin.proc[1].pc = "idle"
    /\ CreateStart(1, call.result)

\* The client sends the next request when the route has answered.
PostTenantAnswered ==
    /\ admin.proc[1].pc = "done"
    /\ admin' = [admin EXCEPT !.proc[1] = IdleCall]
    /\ call' = NoCall
    /\ UNCHANGED <<tenants, tenant_engines, tenant_engines_lock, created, req>>

PostTenantNext ==
    \/ \E v \in SubdomainInputs : PostTenantValidate(v)
    \/ PostTenantCreate
    \/ CreateStep(1)
    \/ PostTenantAnswered

PostTenantSpec == Init /\ [][PostTenantNext]_vars

(***************************************************************************)
(* create_tenant called by several clients at the same time.               *)
(***************************************************************************)
\* Subdomains the clients ask for: one that exists and two that do not.
CreateSubdomains == {BETA, ACME, SHOP}

CreateNext ==
    \E c \in Creators :
       \/ \E s \in CreateSubdomains : CreateStart(c, s)
       \/ CreateStep(c)

CreateSpec == Init /\ [][CreateNext]_vars

(***************************************************************************)
(* The tenant-management API used by several clients at the same time.     *)
(***************************************************************************)
ManageNext == \E c \in Creators : AdminStep(c)

ManageSpec == Init /\ [][ManageNext]_vars

(***************************************************************************)
(* extract_subdomain_from_host called on its own, on host texts put        *)
(* together from labels, dots, colons and main domains.                    *)
(***************************************************************************)
EXAMPLE_COM == <<"x", ".", "c">>
EXAMPLE_CO_UK == <<"a", ".", "x", ".", "c">>

HostPieces == {<<"a">>, <<".">>, <<":">>, LOCALHOST, EXAMPLE_COM}

\* The main domains: localhost, a domain of two labels, of three labels,
\* of one label, and the empty text.
MainDomains == {LOCALHOST, EXAMPLE_COM, EXAMPLE_CO_UK, <<"c">>, <<>>}

\* The texts made of at most n pieces.
RECURSIVE Concatenations(_)
Concatenations(n) ==
    IF n = 0 THEN {<<>>}
    ELSE LET shorter == Concatenations(n - 1)
         IN  shorter \cup {p \o h : p \in HostPieces, h \in shorter}

HostTexts == Concatenations(MaxPieces)

ExtractInit ==
    /\ tenants = {NewTenant(1, BETA)}
    /\ tenant_engines = <<>>
    /\ tenant_engines_lock = NoHolder
    /\ created = <<>>
    /\ req = [r \in Requests |-> InitialRequest]
    /\ admin = NoCalls
    /\ call \in [fn : {"extract_subdomain_from_host"},
                  host : HostTexts,
                  main_domain : MainDomains,
                  result : {Pending}]

ExtractCall ==
    /\ call.result = Pending
    /\ call' = [call EXCEPT !.result =
                   extract_subdomain_from_host(call.host, call.main_domain)]
    /\ UNCHANGED <<tenants, tenant_engines, tenant_engines_lock, created, req, admin>>

ExtractNext == ExtractCall

ExtractSpec == ExtractInit /\ [][ExtractNext]_vars


(***************************************************************************)
(* Properties of the engine cache.                                         *)
(***************************************************************************)
\* Requests to which get_or_create_tenant_engine has returned an entry.
HasEntry(r) == req[r].tenant_entry # NoEntry

\* C1: for every connection target, under every interleaving of the
\* requests that call get_or_create_tenant_engine for it, at most one
\* engine/sessionmaker pair is ever constructed, exactly one once a caller
\* has returned, and every caller that returned holds the one cache entry.
C1_SingleEnginePerTarget ==
    /\ \A u \in Urls : EnginesCreated(u) <= 1
    /\ \A r \in Requests :
          HasEntry(r) =>
             /\ EnginesCreated(req[r].db_url) = 1
             /\ req[r].db_url \in DOMAIN tenant_engines
             /\ req[r].tenant_entry = tenant_engines[req[r].db_url]
    /\ \A r1, r2 \in Requests :
          (HasEntry(r1) /\ HasEntry(r2) /\ req[r1].db_url = req[r2].db_url)
             => req[r1].tenant_entry = req[r2].tenant_entry

\* Two requests are in their first-time call for the same target at once:
\* one constructing inside the lock, the other waiting for the lock.
C1_Witness ==
    \E r1, r2 \in Requests :
       /\ r1 # r2
       /\ req[r1].pc = "creating"
       /\ req[r2].pc = "call_engine"
       /\ req[r1].db_url = req[r2].db_url

\* C2: a call of get_or_create_tenant_engine that finds its target cached
\* (every call in a sequence after the first) returns the cached entry,
\* constructs no engine and leaves the cache as it was; so all the calls
\* return the identical handle.
C2_HitReturnsCachedEntry ==
    [][\A r \in Requests :
          (/\ req[r].pc = "locked"
           /\ req'[r].pc # "locked"
           /\ req[r].db_url \in DOMAIN tenant_engines)
          => /\ req'[r].pc = "open_session"
             /\ req'[r].tenant_entry = tenant_engines[req[r].db_url]
             /\ tenant_engines' = tenant_engines
             /\ created' = created
             /\ \A q \in Requests :
                   (HasEntry(q) /\ req[q].db_url = req[r].db_url)
                      => req'[r].tenant_entry = req[q].tenant_entry]_vars

\* A request has finished, and a later call for the same target came back
\* with the handle the finished request had used, one engine having been built.
C2_Witness ==
    \E r1, r2 \in Requests :
       /\ r1 # r2
       /\ req[r1].pc = "done"
       /\ req[r2].pc = "open_session"
       /\ req[r1].db_url = req[r2].db_url
       /\ req[r1].tenant_entry = req[r2].tenant_entry
       /\ EnginesCreated(req[r2].db_url) = 1

\* C3: the cache only grows: in every step (of a request or of tenant
\* management) each cached target stays cached with the same entry.
C3_CacheMonotonic ==
    [][\A u \in DOMAIN tenant_engines :
          /\ u \in DOMAIN tenant_engines'
          /\ tenant_engines'[u] = tenant_engines[u]]_vars

\* A tenant has been suspended while its engine is cached.
C3_Witness ==
    \E t \in tenants :
       /\ t.status = "suspended"
       /\ t.db_url \in DOMAIN tenant_engines


(***************************************************************************)
(* Properties of the tenant session.                                       *)
(***************************************************************************)
\* The request has ended: its outcome has reached the framework.
Terminated(r) == req[r].pc \in {"done", "failed"}

\* The route completed without raising: the generator was resumed normally.
CallerCompleted(r) == req[r].route = "returned"

\* An Exception was raised while the session was in use or being committed.
FailureRaised(r) ==
    req[r].original \in {"RouteError", "HTTPException", "CommitError"}

\* C4 as stated: whenever the route completes without raising, the session
\* is committed exactly once, is never rolled back, and is closed when the
\* request ends.
C4_Original ==
    \A r \in Requests :
       CallerCompleted(r) =>
          /\ req[r].rollbacks = 0
          /\ req[r].commits <= 1
          /\ Terminated(r) => (req[r].commits = 1 /\ req[r].session = "closed")

\* C4, amended: when the route completes without raising and neither
\* commit() nor close() raises or is cancelled, the session is committed
\* exactly once, is never rolled back, the commit precedes the close, and
\* the session is closed when the request ends (which it then does
\* normally).
C4_CommitOnSuccess ==
    \A r \in Requests :
       (CallerCompleted(r) /\ req[r].exc = "none") =>
          /\ req[r].rollbacks = 0
          /\ req[r].commits <= 1
          /\ req[r].pc \in {"close", "exit", "done"} => req[r].commits = 1
          /\ req[r].pc = "exit" => req[r].session = "closed"
          /\ req[r].pc \in {"commit", "close"} => req[r].session = "open"
          /\ Terminated(r) =>
                (req[r].outcome = Completed /\ req[r].session = "closed")

\* A request whose route completed has ended, committed once and closed.
C4_Witness ==
    \E r \in Requests :
       /\ req[r].pc = "done"
       /\ req[r].route = "returned"
       /\ req[r].commits = 1
       /\ req[r].rollbacks = 0
       /\ req[r].session = "closed"

\* C5 as stated: when an Exception is raised by the route while it uses the
\* session, or by commit(), the session is rolled back (once) before it is
\* closed, is never committed, and the request ends only after the close,
\* with the very exception that was raised.
C5_Original ==
    \A r \in Requests :
       FailureRaised(r) =>
          /\ req[r].commits = 0
          /\ req[r].pc = "rollback" =>
                (req[r].rollbacks = 0 /\ req[r].session = "open")
          /\ req[r].pc = "close" =>
                (req[r].rollbacks = 1 /\ req[r].session = "open")
          /\ req[r].pc = "exit" =>
                (req[r].rollbacks = 1 /\ req[r].session = "closed")
          /\ req[r].pc = "failed" =>
                /\ req[r].rollbacks = 1
                /\ req[r].session = "closed"
                /\ req[r].outcome = Reraised(req[r].original)
          /\ req[r].pc \in {"rollback", "close", "exit", "failed"}

\* C5, amended: when an Exception is raised by the route while it uses the
\* session, or by commit(), the session is never committed and rollback()
\* is awaited before close(); as long as neither rollback() nor close()
\* raises or is cancelled, the session is rolled back (once) before it is
\* closed and the request ends only after the close, with the very
\* exception that was raised.  When one of them fails, its exception is
\* what the request ends with.
C5_RollbackOnFailure ==
    \A r \in Requests :
       FailureRaised(r) =>
          /\ req[r].commits = 0
          /\ req[r].rollbacks <= 1
          /\ req[r].pc \in {"rollback", "close", "exit", "failed"}
          /\ req[r].pc = "rollback" =>
                (req[r].rollbacks = 0 /\ req[r].session = "open"
                    /\ req[r].exc = req[r].original)
          /\ req[r].exc = req[r].original =>
                /\ req[r].pc = "close" =>
                      (req[r].rollbacks = 1 /\ req[r].session = "open")
                /\ req[r].pc = "exit" =>
                      (req[r].rollbacks = 1 /\ req[r].session = "closed")
                /\ req[r].pc = "failed" =>
                      /\ req[r].rollbacks = 1
                      /\ req[r].session = "closed"
                      /\ req[r].outcome = Reraised(req[r].original)
          /\ req[r].exc # req[r].original =>
                /\ req[r].exc \in Failures
                /\ req[r].pc = "failed" => req[r].outcome = Reraised(req[r].exc)

\* A request whose commit raised has ended: rolled back, closed, re-raised.
C5_Witness ==
    \E r \in Requests :
       /\ req[r].pc = "failed"
       /\ req[r].original = "CommitError"
       /\ req[r].exc = "CommitError"
       /\ req[r].rollbacks = 1
       /\ req[r].session = "closed"
       /\ req[r].outcome = Reraised("CommitError")

\* C6 as stated: no request has ended with its tenant session open.
C6_Original ==
    \A r \in Requests : Terminated(r) => req[r].session # "open"

\* C6, amended: every tenant session that is opened is eventually closed,
\* whether its use ends in success, in an exception or in a cancellation,
\* unless close() itself fails (raises or is cancelled) both in the finally
\* block and at the end of the async with; only a request both of whose
\* close() calls failed has ended with its session open.
C6_SessionReleased ==
    /\ \A r \in Requests :
          (req[r].session = "open")
             ~> (req[r].session = "closed" \/ req[r].failed_closes = 2)
    /\ [](\A r \in Requests :
            (Terminated(r) /\ req[r].session = "open")
               => /\ req[r].failed_closes = 2
                  /\ req[r].pc = "failed"
                  /\ req[r].exc \in Failures)

\* A request cancelled at the yield has ended with its session closed,
\* no rollback having been called.
C6_Witness ==
    \E r \in Requests :
       /\ req[r].pc = "failed"
       /\ req[r].route = "CancelledError"
       /\ req[r].rollbacks = 0
       /\ req[r].failed_closes = 0
       /\ req[r].session = "closed"

\* C7: a failure during the use of a tenant session does not touch the
\* cache: from the failure on, the request's target is cached with the
\* entry the request was given, one engine has been built for it, and every
\* request that has an entry for that target has that same entry.
C7_FailureKeepsCache ==
    \A r \in Requests :
       FailureRaised(r) =>
          /\ req[r].db_url \in DOMAIN tenant_engines
          /\ tenant_engines[req[r].db_url] = req[r].tenant_entry
          /\ EnginesCreated(req[r].db_url) = 1
          /\ \A q \in Requests :
                (HasEntry(q) /\ req[q].db_url = req[r].db_url)
                   => req[q].tenant_entry = req[r].tenant_entry

\* A request failed in its route, was rolled back and closed; another
\* request for the same tenant has come back from
\* get_or_create_tenant_engine with the same handle.
C7_Witness ==
    \E r1, r2 \in Requests :
       /\ r1 # r2
       /\ req[r1].pc = "failed"
       /\ req[r1].exc = "RouteError"
       /\ req[r2].pc = "open_session"
       /\ req[r2].db_url = req[r1].db_url
       /\ req[r2].tenant_entry = req[r1].tenant_entry

(***************************************************************************)
(* Properties of the resolver's failures.                                  *)
(***************************************************************************)
\* C8: a request for whose Host header the extractor returned None (as it
\* does for an absent header) ends with HTTP 400, and has
\* opened no central session, has not called get_or_create_tenant_engine
\* and has opened no tenant session.
C8_MissingSubdomain ==
    \A r \in Requests :
       (req[r].pc # "start" /\ req[r].subdomain = None)
       => /\ req[r].pc = "failed"
          /\ req[r].outcome = MissingSubdomain
          /\ req[r].outcome.status_code = 400
          /\ req[r].central = "none"
          /\ req[r].calls = 0
          /\ req[r].tenant_entry = NoEntry
          /\ req[r].session = "none"

\* A request without a Host header has been turned away.
C8_Witness ==
    \E r \in Requests :
       /\ req[r].host = <<>>
       /\ req[r].pc = "failed"
       /\ req[r].outcome = MissingSubdomain

\* The directory query of the request has returned None.
LookupReturnedNone(r) == req[r].row_seen # "not_read" /\ req[r].db_url = None

\* C9 as stated: a request whose directory lookup returned None ends with
\* HTTP 404 "tenant not found"; it never calls get_or_create_tenant_engine
\* and never opens a tenant session, and the cache is left alone.
C9_Original ==
    \A r \in Requests :
       (LookupReturnedNone(r) /\ Terminated(r)) =>
          /\ req[r].outcome = TenantNotFound(req[r].subdomain)
          /\ req[r].calls = 0
          /\ req[r].session = "none"

\* C9, amended: a request whose directory lookup returned None ends with
\* HTTP 404 "tenant not found", its central session closed, unless the
\* close of the central session raises or is cancelled, in which case it
\* ends with that exception; either way it never calls
\* get_or_create_tenant_engine and never opens a tenant session.  The cache
\* is left alone: each entry in it was put there by the call of a request
\* whose lookup returned that target.
C9_TenantNotFound ==
    /\ \A r \in Requests :
          LookupReturnedNone(r) =>
             /\ req[r].pc \in {"central_exit", "failed"}
             /\ (req[r].pc = "failed" /\ req[r].exc = "none") =>
                   /\ req[r].outcome = TenantNotFound(req[r].subdomain)
                   /\ req[r].outcome.status_code = 404
                   /\ req[r].central = "closed"
             /\ (req[r].pc = "failed" /\ req[r].exc # "none") =>
                   /\ req[r].exc \in Failures
                   /\ req[r].outcome = Reraised(req[r].exc)
                   /\ req[r].central = "open"
             /\ req[r].pc = "central_exit" => req[r].exc = "none"
             /\ req[r].calls = 0
             /\ req[r].tenant_entry = NoEntry
             /\ req[r].session = "none"
    /\ \A u \in DOMAIN tenant_engines :
          \E r \in Requests : req[r].db_url = u /\ req[r].calls = 1

\* A request for a subdomain without a tenant row has been turned away.
C9_Witness ==
    \E r \in Requests :
       /\ req[r].row_seen = "no_row"
       /\ req[r].pc = "failed"
       /\ req[r].outcome.status_code = 404
       /\ req[r].central = "closed"

\* The tenants table without the rows of a subdomain.
WithoutTenant(table, subdomain) == table \ RowsBySubdomain(table, subdomain)

\* C10: a paused or suspended tenant cannot be told from a missing one.
\* For every reachable tenants table and every subdomain whose row is not
\* active, get_tenant_db_url returns None on the table and on the table
\* without that row; and two requests with the same Host header, one having
\* read an inactive row and the other no row, their central sessions
\* closing alike, end with the same outcome (kind, status code and detail),
\* without an entry or a session.
C10_InactiveIsNotFound ==
    /\ \A s \in TenantSubdomains :
          (\E t \in tenants : t.subdomain = s /\ t.status \in {"paused", "suspended"})
             => /\ get_tenant_db_url(tenants, s) = None
                /\ get_tenant_db_url(WithoutTenant(tenants, s), s) = None
    /\ \A r \in Requests :
          req[r].row_seen \in {"paused", "suspended"} => req[r].db_url = None
    /\ \A r1, r2 \in Requests :
          (/\ req[r1].row_seen \in {"paused", "suspended"}
           /\ req[r2].row_seen = "no_row"
           /\ req[r1].host = req[r2].host
           /\ req[r1].exc = req[r2].exc
           /\ Terminated(r1)
           /\ Terminated(r2))
          => /\ req[r1].outcome = req[r2].outcome
             /\ req[r1].tenant_entry = req[r2].tenant_entry
             /\ req[r1].session = req[r2].session

\* Two requests for the same host have ended, one having found no row and
\* the other a paused row.
C10_Witness ==
    \E r1, r2 \in Requests :
       /\ req[r1].row_seen = "paused"
       /\ req[r2].row_seen = "no_row"
       /\ req[r1].host = req[r2].host
       /\ req[r1].exc = "none"
       /\ req[r2].exc = "none"
       /\ Terminated(r1)
       /\ Terminated(r2)

(***************************************************************************)
(* Properties of the order of the steps of one resolution.                 *)
(***************************************************************************)
\* C11: in every resolution the central session is closed before
\* get_or_create_tenant_engine is called and before the tenant session is
\* opened, and a request turned away with "tenant not found" has closed it
\* too; no request holds a central and a tenant session at once.  (A
\* request whose central session is left open, its close having failed, has
\* ended without calling get_or_create_tenant_engine.)
C11_CentralReleasedFirst ==
    \A r \in Requests :
       /\ req[r].pc \in {"lookup", "central_exit"} => req[r].central = "open"
       /\ req[r].central = "open" =>
             /\ req[r].pc \in {"lookup", "central_exit", "failed"}
             /\ req[r].calls = 0
             /\ req[r].tenant_entry = NoEntry
             /\ req[r].session = "none"
       /\ (req[r].central = "open" /\ req[r].pc = "failed")
             => req[r].exc \in Failures
       /\ req[r].calls > 0 => req[r].central = "closed"
       /\ req[r].pc \in {"call_engine", "locked", "creating", "open_session"}
             => req[r].central = "closed"
       /\ req[r].session # "none" => req[r].central = "closed"
       /\ req[r].outcome.status_code = HTTP_404_NOT_FOUND
             => req[r].central = "closed"
       /\ ~(req[r].central = "open" /\ req[r].session = "open")

\* One request uses its tenant session, its central session closed, while
\* another has been turned away with "tenant not found", its central
\* session closed as well.
C11_Witness ==
    \E r1, r2 \in Requests :
       /\ req[r1].pc = "yield"
       /\ req[r1].session = "open"
       /\ req[r1].central = "closed"
       /\ req[r2].pc = "failed"
       /\ req[r2].outcome.status_code = HTTP_404_NOT_FOUND
       /\ req[r2].central = "closed"

\* The state of the resolution of request r, read off the position of the
\* request in get_tenant_session and what it has done so far.
Phase(r) ==
    CASE req[r].pc = "start" -> "START"
      [] req[r].pc = "lookup" -> "SUBDOMAIN_EXTRACTED"
      [] req[r].pc = "central_exit" ->
            IF req[r].db_url = None THEN "SUBDOMAIN_EXTRACTED"
            ELSE "TENANT_LOOKED_UP"
      [] req[r].pc \in {"call_engine", "locked", "creating"} -> "TENANT_LOOKED_UP"
      [] req[r].pc = "open_session" -> "CONNECTION_ACQUIRED"
      [] req[r].pc \in {"yield", "commit", "rollback"} -> "SESSION_OPEN"
      [] req[r].pc \in {"close", "exit", "done", "failed"} ->
            IF req[r].session = "none" THEN "FAILED"
            ELSE IF req[r].session = "closed" THEN "RELEASED"
            ELSE IF req[r].commits > 0 THEN "COMMITTED"
            ELSE IF req[r].rollbacks > 0 THEN "ROLLED_BACK"
            ELSE "SESSION_OPEN"

\* The order of the states of a resolution that gets through.
PhaseOrder ==
    {<<"START", "SUBDOMAIN_EXTRACTED">>,
     <<"SUBDOMAIN_EXTRACTED", "TENANT_LOOKED_UP">>,
     <<"TENANT_LOOKED_UP", "CONNECTION_ACQUIRED">>,
     <<"CONNECTION_ACQUIRED", "SESSION_OPEN">>,
     <<"SESSION_OPEN", "COMMITTED">>,
     <<"SESSION_OPEN", "ROLLED_BACK">>,
     <<"COMMITTED", "RELEASED">>,
     <<"ROLLED_BACK", "RELEASED">>}

\* A step that fails before the session is open ends the resolution.
PhaseFailure ==
    {<<"START", "FAILED">>,
     <<"SUBDOMAIN_EXTRACTED", "FAILED">>,
     <<"TENANT_LOOKED_UP", "FAILED">>,
     <<"CONNECTION_ACQUIRED", "FAILED">>}

\* C12 as stated: every step of a request leaves its state alone or takes
\* it to the next state of START, SUBDOMAIN_EXTRACTED, TENANT_LOOKED_UP,
\* CONNECTION_ACQUIRED, SESSION_OPEN, COMMITTED or ROLLED_BACK, RELEASED
\* (or, before SESSION_OPEN, to the terminal failure).
C12_Original ==
    [][\A r \in Requests :
          \/ Phase(r)' = Phase(r)
          \/ <<Phase(r), Phase(r)'>> \in PhaseOrder \cup PhaseFailure]_vars

\* C12, amended: every step of a request leaves its state alone or takes
\* it to the next state of START, SUBDOMAIN_EXTRACTED, TENANT_LOOKED_UP,
\* CONNECTION_ACQUIRED, SESSION_OPEN, COMMITTED or ROLLED_BACK, RELEASED,
\* so that no state is skipped, repeated or revisited, except that a
\* request that was cancelled (at the yield or in commit), or whose rollback
\* failed, goes from SESSION_OPEN to RELEASED with neither commit nor
\* rollback (and a request whose close() fails twice stays where it was); a
\* step that fails before SESSION_OPEN goes to the terminal failure, from
\* which nothing follows, and a resolution that failed there has never had
\* a session.
C12_StrictSequence ==
    [][\A r \in Requests :
          /\ \/ Phase(r)' = Phase(r)
             \/ <<Phase(r), Phase(r)'>> \in PhaseOrder \cup PhaseFailure
             \/ /\ req[r].exc \in Failures
                /\ Phase(r) = "SESSION_OPEN"
                /\ Phase(r)' = "RELEASED"
                /\ req'[r].commits = 0
                /\ req'[r].rollbacks = 0
          /\ (req'[r].pc = "failed" /\ req[r].session = "none")
                => (req'[r].session = "none" /\ req'[r].commits = 0)]_vars

\* One request has been released after a commit, another after a rollback.
C12_Witness ==
    \E r1, r2 \in Requests :
       /\ Phase(r1) = "RELEASED"
       /\ req[r1].commits = 1
       /\ Phase(r2) = "RELEASED"
       /\ req[r2].rollbacks = 1

(***************************************************************************)
(* Properties of the routing of requests to tenants.                       *)
(***************************************************************************)
\* The rows of the other tenants: those whose subdomain is not s.
OtherTenants(table, s) == {t \in table : t.subdomain # s}

\* C13: under every interleaving, the session of a request whose Host
\* header carries subdomain s comes from the sessionmaker cached under the
\* connection target that the tenants row of s held when the request looked
\* it up, an engine built for that very target, and from the sessionmaker
\* of no other tenant's target.
C13_SessionOfOwnTenant ==
    \A r \in Requests :
       req[r].session # "none" =>
          /\ req[r].subdomain = extract_subdomain_from_host(req[r].host, LOCALHOST)
          /\ \E t \in tenants :
                /\ t.subdomain = req[r].subdomain
                /\ t.db_url = req[r].db_url
          /\ req[r].db_url \in DOMAIN tenant_engines
          /\ req[r].bind = tenant_engines[req[r].db_url].sessionmaker
          /\ req[r].bind[1] = req[r].db_url
          /\ \A t \in OtherTenants(tenants, req[r].subdomain) :
                /\ t.db_url # req[r].db_url
                /\ t.db_url \in DOMAIN tenant_engines
                      => req[r].bind # tenant_engines[t.db_url].sessionmaker

\* Two requests for different tenants use their sessions at the same time,
\* both tenants' engines being cached.
C13_Witness ==
    \E r1, r2 \in Requests :
       /\ req[r1].pc = "yield"
       /\ req[r2].pc = "yield"
       /\ req[r1].subdomain = ACME
       /\ req[r2].subdomain = BETA
       /\ Cardinality(DOMAIN tenant_engines) = 2
       /\ req[r1].bind # req[r2].bind

(***************************************************************************)
(* Properties of extract_subdomain_from_host.                              *)
(***************************************************************************)
\* The part of text s before the first occurrence of character c (all of s
\* when c does not occur), by positions rather than by splitting.
Before(s, c) ==
    LET k == CHOOSE n \in 0 .. Len(s) :
                 /\ \A i \in 1 .. n : s[i] # c
                 /\ n = Len(s) \/ s[n + 1] = c
    IN  SubSeq(s, 1, k)

\* The number of labels of s: one more than the number of its dots.
Labels(s) == Cardinality({i \in 1 .. Len(s) : s[i] = "."}) + 1

\* s is some text followed by d.
HasSuffix(s, d) == \E k \in 0 .. Len(s) : s = SubSeq(s, 1, k) \o d

\* The reference: strip everything from the first ':'; none unless the rest
\* ends with d; else the first label when there are at least 2 labels
\* (d = localhost) or at least 3 (any other d), else none.
ExtractReference(h, d) ==
    LET rest == Before(h, ":")
    IN  IF ~HasSuffix(rest, d) THEN None
        ELSE IF Labels(rest) >= (IF d = LOCALHOST THEN 2 ELSE 3)
        THEN Before(rest, ".")
        ELSE None

\* C14: for every host text h and main domain d, the result of
\* extract_subdomain_from_host(h, d) is that of the reference.
C14_ExtractIsReference ==
    call.result # Pending =>
       call.result = ExtractReference(call.host, call.main_domain)

\* The extractor has returned the first label of a host with a colon under
\* localhost, which has two labels only.
C14_Witness ==
    /\ call.host = <<"a", ".">> \o LOCALHOST \o <<":">>
    /\ call.main_domain = LOCALHOST
    /\ call.result = <<"a">>

\* The host is exactly the main domain, alone or followed by ':' and a port.
IsBareDomain(h, d) == h = d \/ \E k \in 1 .. Len(h) : h[k] = ":" /\ SubSeq(h, 1, k - 1) = d

\* C15: a host that is exactly the main domain, with or without a port,
\* has no subdomain: for every main domain d the extractor returns None
\* for d and for d followed by a port.
C15_BareDomainHasNoSubdomain ==
    (call.result # Pending /\ IsBareDomain(call.host, call.main_domain))
       => call.result = None

\* The request has extracted a subdomain from its Host header.
Extracted(r) == req[r].pc # "start" /\ req[r].subdomain # None

\* C16: subdomains are lowercased before the lookup: the subdomain a
\* request looks up is in lowercase, and two requests whose Host headers
\* differ only in letter case look up the same subdomain (and so resolve to
\* the same tenant).
C16_LowercaseLookup ==
    /\ \A r \in Requests :
          Extracted(r) => req[r].subdomain = Lower(req[r].subdomain)
    /\ \A r1, r2 \in Requests :
          (Extracted(r1) /\ Extracted(r2)
              /\ Lower(req[r1].host) = Lower(req[r2].host))
             => req[r1].subdomain = req[r2].subdomain

(***************************************************************************)
(* Properties of tenant creation.                                          *)
(***************************************************************************)
\* C17: TenantCreate refuses every subdomain whose lowercase form is a
\* reserved word, in whatever letter case it is written, and so no tenant
\* stored by a sequence of create_tenant calls has a reserved subdomain.
C17_ReservedRejected ==
    /\ (call.fn = "TenantCreate" /\ Lower(call.subdomain) \in Reserved)
          => call.result = ValidationError
    /\ \A t \in tenants : Lower(t.subdomain) \notin Reserved

\* Tenants have been stored, and the last body, a reserved word written as
\* the reserved set has it, has been refused.
C17_Witness ==
    /\ Cardinality(tenants) >= 3
    /\ call.fn = "TenantCreate"
    /\ call.subdomain = <<"a", "d", "m", "i", "n">>
    /\ call.result = ValidationError

(***************************************************************************)
(* Properties of the failures of a resolution.                             *)
(***************************************************************************)
\* The resolution of request r has failed.
Failed(r) == req[r].pc = "failed"

\* The four cases in which a resolution fails, told by how far it got.
FailureCases(r) ==
    {c \in {"MissingSubdomain", "TenantNotFound",
            "ConnectionAcquisitionFailure", "SessionFailure"} :
        \/ c = "MissingSubdomain" /\ Falsy(req[r].subdomain)
        \/ c = "TenantNotFound" /\ LookupReturnedNone(r) /\ req[r].exc = "none"
        \/ c = "ConnectionAcquisitionFailure"
              /\ req[r].calls > 0 /\ ~HasEntry(r)
        \/ c = "SessionFailure" /\ req[r].session # "none"}

\* The resolution failed on the central database: its query, or the close
\* of its session, raised or was cancelled.
CentralFailure(r) ==
    /\ req[r].central # "none"
    /\ req[r].calls = 0
    /\ req[r].exc # "none"

\* What an HTTP mapping can tell an error by: its class and status code.
ErrorKind(outcome) == <<outcome.kind, outcome.status_code>>

\* C18 as stated: every failed resolution is of exactly one of the four
\* cases, and resolutions failed in different cases reach the caller as
\* errors of different kinds.
C18_Original ==
    /\ \A r \in Requests : Failed(r) => Cardinality(FailureCases(r)) = 1
    /\ \A r1, r2 \in Requests :
          (Failed(r1) /\ Failed(r2) /\ FailureCases(r1) # FailureCases(r2))
             => ErrorKind(req[r1].outcome) # ErrorKind(req[r2].outcome)

\* C18, amended: every failed resolution is of exactly one of the four
\* cases, or failed on the central database; MissingSubdomain reaches the
\* caller as HTTPException 400 and TenantNotFound as HTTPException 404, of
\* different kinds from each other and from a failure to construct the
\* engine; a failure on the central database, a failure to construct the
\* engine and a failure during the use of the session reach the caller as
\* the very exception that was raised, with no kind of their own.
C18_FailureOutcomes ==
    /\ \A r \in Requests :
          Failed(r) =>
             /\ Cardinality(FailureCases(r)) = IF CentralFailure(r) THEN 0 ELSE 1
             /\ "MissingSubdomain" \in FailureCases(r)
                   => req[r].outcome = MissingSubdomain
             /\ "TenantNotFound" \in FailureCases(r)
                   => req[r].outcome = TenantNotFound(req[r].subdomain)
             /\ "ConnectionAcquisitionFailure" \in FailureCases(r)
                   => req[r].outcome = EngineError
             /\ ("SessionFailure" \in FailureCases(r) \/ CentralFailure(r))
                   => /\ req[r].exc # "none"
                      /\ req[r].outcome = Reraised(req[r].exc)
    /\ \A r1, r2 \in Requests :
          (/\ Failed(r1)
           /\ Failed(r2)
           /\ FailureCases(r1) # FailureCases(r2)
           /\ ~CentralFailure(r1)
           /\ ~CentralFailure(r2)
           /\ "SessionFailure" \notin FailureCases(r1) \cup FailureCases(r2))
             => ErrorKind(req[r1].outcome) # ErrorKind(req[r2].outcome)

\* One request was turned away for an unknown tenant, another for a
\* missing subdomain.
C18_Witness ==
    \E r1, r2 \in Requests :
       /\ Failed(r1)
       /\ Failed(r2)
       /\ FailureCases(r1) = {"TenantNotFound"}
       /\ FailureCases(r2) = {"MissingSubdomain"}

(***************************************************************************)
(* Properties of the cache lock.                                           *)
(***************************************************************************)
\* Request r is inside the with block of get_or_create_tenant_engine.
InsideLock(r) == req[r].pc \in {"locked", "creating"}

\* Request r is at a point where it waits and others run: the central
\* query, the use of the tenant session, commit, rollback or close.
Suspended(r) ==
    req[r].pc \in {"lookup", "central_exit", "yield", "commit", "rollback", "close",
                   "exit"}

\* C19: the lock is held only during the check-and-insert of
\* get_or_create_tenant_engine: a request holds it exactly while it is
\* inside the with block, never at a suspension point, and no more once
\* its call has returned or raised.
C19_LockOnlyAroundCache ==
    /\ tenant_engines_lock \in Requests \cup {NoHolder}
    /\ \A r \in Requests :
          /\ tenant_engines_lock = r <=> InsideLock(r)
          /\ Suspended(r) => tenant_engines_lock # r
          /\ (req[r].calls > 0 /\ ~InsideLock(r)) => tenant_engines_lock # r

\* One request is inside the with block, holding the lock, while another
\* is using its tenant session.
C19_Witness ==
    \E r1, r2 \in Requests :
       /\ tenant_engines_lock = r1
       /\ req[r1].pc = "locked"
       /\ req[r2].pc = "yield"

\* C20: when the construction of the engine or sessionmaker fails, the
\* exception reaches the caller of get_tenant_session (the request fails
\* with it, having made one call: nothing is retried), the target is not
\* added to the cache by that call, and the lock is free again, so that a
\* later call can go on.
C20_ConstructionFailure ==
    /\ [](\A r \in Requests :
            (req[r].calls > 0 /\ ~HasEntry(r) /\ ~InsideLock(r))
               => /\ req[r].pc = "failed"
                  /\ req[r].outcome = EngineError
                  /\ req[r].calls = 1
                  /\ req[r].session = "none"
                  /\ tenant_engines_lock # r)
    /\ [][\A r \in Requests :
             (req[r].pc = "creating" /\ req'[r].pc = "failed")
                => /\ tenant_engines' = tenant_engines
                   /\ req[r].db_url \notin DOMAIN tenant_engines'
                   /\ created' = created
                   /\ tenant_engines_lock' = NoHolder]_vars

\* A construction failed for one request, and a later call of another
\* request for the same target got the lock and built the engine.
C20_Witness ==
    \E r1, r2 \in Requests :
       /\ req[r1].pc = "failed"
       /\ req[r1].outcome = EngineError
       /\ req[r2].db_url = req[r1].db_url
       /\ HasEntry(r2)
       /\ req[r2].pc = "yield"

(***************************************************************************)
(* Properties of the tenants table.                                        *)
(***************************************************************************)
TenantKeys(table) == {t.id : t \in table}

\* The call of client c is resumed at pc and ends in this step.
CallEnds(c, pc) == admin.proc[c].pc = pc /\ admin'.proc[c].pc = "done"

\* The call of client c ends in this step with an exception of one of its
\* awaits, or cancelled there.
CallFails(c) ==
    /\ admin'.proc[c].pc = "done"
    /\ admin'.proc[c] # admin.proc[c]
    /\ admin'.proc[c].outcome.kind \in Failures

\* C21 as stated: in every step, each tenant row stays in the table (with
\* its key and subdomain), a row that is new has status active,
\* delete_tenant of an existing tenant returns True and leaves its row with
\* status suspended, and delete_tenant of an unknown key returns False and
\* changes nothing.
C21_Original ==
    [][/\ \A t \in tenants :
             \E u \in tenants' : u.id = t.id /\ u.subdomain = t.subdomain
       /\ \A u \in tenants' :
             u.id \notin TenantKeys(tenants) => u.status = "active"
       /\ \A c \in Creators :
             admin.proc[c].fn = "delete_tenant" =>
                LET id == admin.proc[c].tenant_id
                IN  /\ CallEnds(c, "select")
                          => /\ id \notin TenantKeys(tenants)
                             /\ admin'.proc[c].outcome = FalseReturned
                             /\ tenants' = tenants
                    /\ admin.proc[c].pc = "commit" /\ admin'.proc[c] # admin.proc[c]
                          => /\ id \in TenantKeys(tenants)
                             /\ admin'.proc[c].outcome = TrueReturned
                             /\ \A u \in RowsById(tenants', id) :
                                   u.status = "suspended"]_vars

\* C21, amended: in every step, each tenant row stays in the table (with
\* its key, subdomain and connection target) and a row that is new has
\* status active.  A delete_tenant whose query and commit go through
\* returns False for an unknown key, changing nothing, and True for an
\* existing tenant, leaving the other rows as they were; its commit leaves
\* the row suspended when the call read it with another status, and writes
\* nothing when the call read it suspended (so that a status an
\* update_tenant committed in between stays).  A delete_tenant whose query
\* or commit raises or is cancelled ends with that exception and changes
\* nothing.
C21_StatusLifecycle ==
    [][/\ \A t \in tenants :
             \E u \in tenants' :
                /\ u.id = t.id
                /\ u.subdomain = t.subdomain
                /\ u.db_url = t.db_url
       /\ Cardinality(tenants') >= Cardinality(tenants)
       /\ \A u \in tenants' :
             u.id \notin TenantKeys(tenants) => u.status = "active"
       /\ \A c \in Creators :
             admin.proc[c].fn = "delete_tenant" =>
                LET id == admin.proc[c].tenant_id
                IN  /\ CallFails(c) => tenants' = tenants
                    /\ (admin.proc[c].pc = "select"
                           /\ admin'.proc[c] # admin.proc[c] /\ ~CallFails(c))
                          => /\ tenants' = tenants
                             /\ IF id \in TenantKeys(tenants)
                                THEN admin'.proc[c].pc = "commit"
                                ELSE /\ admin'.proc[c].pc = "done"
                                     /\ admin'.proc[c].outcome = FalseReturned
                    /\ (admin.proc[c].pc = "commit"
                           /\ admin'.proc[c] # admin.proc[c] /\ ~CallFails(c))
                          => /\ id \in TenantKeys(tenants)
                             /\ admin'.proc[c].outcome = TrueReturned
                             /\ TenantKeys(tenants') = TenantKeys(tenants)
                             /\ \A u \in tenants' :
                                   u.id # id => u \in tenants
                             /\ admin.proc[c].loaded # "suspended"
                                   => \A u \in RowsById(tenants', id) :
                                         u.status = "suspended"
                             /\ admin.proc[c].loaded = "suspended"
                                   => tenants' = tenants]_vars

\* The tenant the table started with has been suspended by a delete_tenant
\* that returned True, a tenant created in this run is active, and a
\* delete_tenant of a key without a row has returned False.
C21_Witness ==
    /\ Cardinality(tenants) = 2
    /\ \E t \in tenants : t.subdomain = BETA /\ t.status = "suspended"
    /\ \E t \in tenants : t.subdomain # BETA /\ t.status = "active"
    /\ \E c1, c2 \in Creators :
          /\ admin.proc[c1].fn = "delete_tenant"
          /\ admin.proc[c1].outcome = TrueReturned
          /\ admin.proc[c2].outcome \in {FalseReturned, TenantCreated}

\* C22 as stated: under every interleaving of create_tenant calls no two
\* rows of the tenants table have the same subdomain, and a call that is
\* resumed while a row of its subdomain exists that it did not add ends with
\* ValueError and leaves the table as it was.
C22_Original ==
    /\ [](\A t1, t2 \in tenants : t1.subdomain = t2.subdomain => t1 = t2)
    /\ [][\A c \in Creators :
             (/\ admin.proc[c].pc \in {"check", "create_db", "commit_db", "insert"}
              /\ RowsBySubdomain(tenants, admin.proc[c].subdomain) # {}
              /\ admin'.proc[c] # admin.proc[c])
                => /\ admin'.proc[c].pc = "done"
                   /\ admin'.proc[c].outcome.kind = "ValueError"
                   /\ tenants' = tenants]_vars

\* C22, amended: under every interleaving of create_tenant calls no two
\* rows of the tenants table have the same subdomain, and a call that is
\* resumed while a row of its subdomain exists that it did not add ends
\* there, leaving the table as it was, with ValueError, or, when the await
\* it was suspended at raised outside the try block or was cancelled, with
\* that exception; a call that returns a tenant has added the one row of its
\* subdomain, and every other call leaves the table as it was and ends with
\* ValueError, with the exception of an await (or, for a subdomain without
\* a row and settings without DB_PASS, with AttributeError).
C22_SubdomainUnique ==
    /\ [](\A t1, t2 \in tenants : t1.subdomain = t2.subdomain => t1 = t2)
    /\ [][\A c \in Creators :
             /\ \A pc \in {"check", "create_db", "commit_db", "insert"} :
                   CallEnds(c, pc) =>
                      /\ \/ admin'.proc[c].outcome.kind = "ValueError"
                         \/ CallFails(c)
                         \/ /\ admin'.proc[c].outcome = AttributeError
                            /\ RowsBySubdomain(tenants,
                                               admin.proc[c].subdomain) = {}
                      /\ tenants' = tenants
             /\ admin.proc[c].pc = "check"
                /\ RowsBySubdomain(tenants, admin.proc[c].subdomain) # {}
                /\ admin'.proc[c] # admin.proc[c]
                   => /\ admin'.proc[c].outcome = SubdomainExists \/ CallFails(c)
                      /\ admin'.proc[c].pc = "done"
                      /\ tenants' = tenants
             /\ admin.proc[c].pc \in {"create_db", "commit_db", "insert"}
                /\ RowsBySubdomain(tenants, admin.proc[c].subdomain) # {}
                /\ admin'.proc[c] # admin.proc[c]
                   => CallEnds(c, admin.proc[c].pc)
             /\ CallEnds(c, "refresh") =>
                   /\ admin'.proc[c].outcome = TenantCreated \/ CallFails(c)
                   /\ tenants' = tenants
                   /\ Cardinality(RowsBySubdomain(tenants,
                                      admin.proc[c].subdomain)) = 1]_vars

\* Two calls for the same new subdomain both passed the check; one has
\* stored the tenant and the other has ended with ValueError.
C22_Witness ==
    \E c1, c2 \in Creators :
       /\ admin.proc[c1].subdomain = admin.proc[c2].subdomain
       /\ admin.proc[c1].outcome = TenantCreated
       /\ admin.proc[c2].outcome = DatabaseNotCreated
       /\ admin.proc[c1].pc = "done"
       /\ admin.proc[c2].pc = "done"

(***************************************************************************)
(* Properties of suspension.                                               *)
(***************************************************************************)
\* The tenant of subdomain s is paused or suspended in the table.
Inactive(table, s) == \E t \in table : t.subdomain = s /\ t.status # "active"

\* Request r runs its directory query in this step.
LooksUp(r) == req[r].pc = "lookup" /\ req'[r].pc # "lookup"

\* C23 as stated: a directory query that runs while the tenant is paused
\* or suspended returns None, whether or not the tenant's engine is cached,
\* and the request then ends with "tenant not found" without calling
\* get_or_create_tenant_engine or opening a session.
C23_Original ==
    \A r \in Requests :
       req[r].row_seen \in {"paused", "suspended"} =>
          /\ req[r].calls = 0
          /\ req[r].session = "none"
          /\ Terminated(r) => req[r].outcome = TenantNotFound(req[r].subdomain)

\* C23, amended: a directory query that runs while the tenant is paused or
\* suspended gives no connection target, whether or not the tenant's
\* engine is cached (it returns None, or it raises or is cancelled), and the
\* request then ends without calling get_or_create_tenant_engine or
\* opening a session: with "tenant not found", or, when the query or the
\* close of the central session raised or was cancelled, with that
\* exception; a query that runs while the tenant is active (again) and goes
\* through returns its connection target.
C23_SuspensionTakesEffect ==
    /\ [][\A r \in Requests :
             LooksUp(r) =>
                /\ Inactive(tenants, req[r].subdomain)
                      => /\ req'[r].db_url = None
                         /\ \/ req'[r].row_seen \in {"paused", "suspended"}
                            \/ req'[r].exc \in Failures
                /\ \A t \in tenants :
                      (/\ t.subdomain = req[r].subdomain
                       /\ t.status = "active"
                       /\ req'[r].exc = "none")
                         => req'[r].db_url = t.db_url]_vars
    /\ [](\A r \in Requests :
            (req[r].db_url = None /\ req[r].pc \notin {"start", "lookup"}
                /\ req[r].subdomain # None) =>
               /\ req[r].row_seen \in {"not_read", "no_row", "paused", "suspended"}
               /\ req[r].pc \in {"central_exit", "failed"}
               /\ req[r].calls = 0
               /\ ~HasEntry(r)
               /\ req[r].session = "none"
               /\ Terminated(r) =>
                     req[r].outcome =
                        IF req[r].exc = "none"
                        THEN TenantNotFound(req[r].subdomain)
                        ELSE Reraised(req[r].exc))
    /\ [](\A r \in Requests :
            req[r].row_seen \in {"paused", "suspended"} => req[r].db_url = None)

\* A request has been turned away for a suspended tenant whose engine is
\* in the cache, used by an earlier request.
C23_Witness ==
    \E r1, r2 \in Requests :
       /\ req[r1].pc = "done"
       /\ req[r2].pc = "failed"
       /\ req[r2].row_seen = "suspended"
       /\ req[r2].subdomain = req[r1].subdomain
       /\ req[r1].db_url \in DOMAIN tenant_engines

\* C24 as stated: in every reachable state, a request that holds an open
\* tenant session, or is about to open one, does so for a tenant whose
\* status in the table is active.
C24_Original ==
    \A r \in Requests :
       (req[r].session = "open" \/ req[r].pc = "open_session")
          => ~Inactive(tenants, req[r].subdomain)

\* C24, amended: a request that holds or opens a tenant session, or has
\* been given an engine, is one whose directory query found the tenant
\* active; the tenant may have been paused or suspended since.
C24_ActiveAtLookup ==
    \A r \in Requests :
       (req[r].session # "none" \/ HasEntry(r) \/ req[r].calls > 0)
          => /\ req[r].row_seen = "active"
             /\ \E t \in tenants :
                   t.subdomain = req[r].subdomain /\ t.db_url = req[r].db_url

\* A request uses its session while its tenant, active when the request
\* looked it up, is suspended.
C24_Witness ==
    \E r \in Requests :
       /\ req[r].pc = "yield"
       /\ req[r].session = "open"
       /\ req[r].row_seen = "active"
       /\ \E t \in tenants :
             t.subdomain = req[r].subdomain /\ t.status = "suspended"

\* C25: the extractor returns a subdomain only for hosts under the main
\* domain at a label boundary: whenever the result is not None, the host
\* without its port ends with '.' followed by the main domain, and the
\* label returned is not empty.
C25_LabelBoundary ==
    (call.result # Pending /\ call.result # None)
       => /\ EndsWith(Before(call.host, ":"), <<".">> \o call.main_domain)
          /\ call.result # <<>>

\* The connection target get_tenant_session would go on with after its
\* directory step for Host header h (139-160), None when it fails there.
LookupPasses(table, h) ==
    LET subdomain == extract_subdomain_from_host(h, LOCALHOST)
    IN  IF Falsy(subdomain) THEN None
        ELSE IF Falsy(get_tenant_db_url(table, subdomain)) THEN None
        ELSE get_tenant_db_url(table, subdomain)

\* C26: for every Host header and every state of the tenants table, the
\* value get_current_tenant_info builds when its query is answered (the
\* helper returns nothing when the query or the close of its session raises
\* or is cancelled, where get_tenant_session fails too) is a
\* record exactly when get_tenant_session would pass its directory step on
\* that table, the db_url of the record is the connection target the
\* resolver would use, a header without a subdomain gives None, the value
\* returned is the value built, and no step of the helper changes the
\* cache or a request's session.
C26_InfoAgreesWithLookup ==
    [][call' # call =>
          /\ call'.fn = "get_current_tenant_info"
          /\ (call'.pc = "exit" /\ call'.raised = "none") =>
                /\ (call'.result # NoTenantInfo)
                      <=> (LookupPasses(tenants, call'.host) # None)
                /\ call'.result # NoTenantInfo =>
                      call'.result.db_url = LookupPasses(tenants, call'.host)
          /\ call'.raised # "none" => call'.result = NoTenantInfo
          /\ call'.pc = "query" => call'.result = NoTenantInfo
          /\ (call'.pc = "done" /\ call'.raised = "none") =>
                IF call.fn = "none" THEN call'.result = NoTenantInfo
                ELSE IF call.pc = "exit" THEN call'.result = call.result
                ELSE /\ call'.result = NoTenantInfo
                     /\ LookupPasses(tenants, call'.host) = None
          /\ tenant_engines' = tenant_engines
          /\ created' = created
          /\ req' = req]_vars

\* The helper has returned None for acme, which is in the table with a
\* status other than active.
C26_Witness ==
    /\ call.fn = "get_current_tenant_info"
    /\ call.pc = "done"
    /\ call.raised = "none"
    /\ call.host = ACME \o <<".">> \o LOCALHOST \o PORT8000
    /\ call.result = NoTenantInfo
    /\ \E t \in tenants : t.subdomain = ACME /\ t.status # "active"

\* C27: execute_procedure gives every connection it obtained back to the
\* pool before it ends, on every path: whenever no call is running, no
\* connection is checked out of the pool.
C27_AllConnectionsReturned ==
    call.pc = "idle" => call.pool._used = 0

\* The token type a route decodes its token as.
RouteTokenType == IF call.fn = "get_current_user" THEN "access" ELSE "refresh"

OtherTokenType == IF call.fn = "get_current_user" THEN "refresh" ELSE "access"

\* C28: token types are never interchangeable. Once a route has decoded
\* its token: a payload came back only for a token issued for the route's
\* token type; a token issued for the other type was rejected with 401;
\* and for an expired or malformed token decode_token returned None, it
\* did not raise.
C28_TokenTypesNotInterchangeable ==
    call.outcome # NoRouteOutcome =>
       /\ call.outcome.decoded = "payload" =>
             call.token \in IssuedFor(RouteTokenType, call.JWT_SECRET_REFRESH)
       /\ call.token \in IssuedFor(OtherTokenType, call.JWT_SECRET_REFRESH) =>
             /\ call.outcome.kind = "HTTPException"
             /\ call.outcome.status_code = HTTP_401_UNAUTHORIZED
       /\ (~call.token.wellformed \/ call.token.exp <= call.now) =>
             call.outcome.decoded = "None"

=============================================================================
